---- MODULE Spec2Model ----
(***************************************************************************)
(* TEM (monthly effective rate) of Argentine dual bonds:                   *)
(*   src/tasas/bond_tem.py   generic engine, selected by ticker            *)
(*   src/tasas/ttm26_tem.py  single-bond (TTM26) engine                    *)
(*                                                                         *)
(* Python values are tagged records: None is [t |-> "None"], a float or    *)
(* int is [t |-> "num", n |-> k] with k in millionths (1.0 is 1000000), a  *)
(* str is [t |-> "str", s |-> <<characters>>], a date is                   *)
(* [year, month, day].  The three float power formulas are tabulated at    *)
(* the arguments the specifications draw, each value being the source      *)
(* formula's result rounded to the millionth.                              *)
(***************************************************************************)
EXTENDS Integers, Sequences, FiniteSets, TLC

VARIABLES
    holidays,     \* the optional `holidays` module: "None" when the import failed
    c_pc,         \* calendar: position of the shift / shift-back exercise
    c_d,          \* calendar: date_obj
    c_n,          \* calendar: offset_days
    c_use,        \* calendar: use_holidays
    c_r1,         \* calendar: shift_business_days(c_d, c_n)
    c_r2,         \* calendar: shift_business_days(c_r1, -c_n)
    today,        \* dt.date.today()
    queries,      \* the rate-series requests issued so far, in order
    p_pc,         \* prospectus: position in compute_(dual_)prospectus_tem
    p_in,         \* prospectus: the call's arguments and the file it is in
    p_loc,        \* prospectus: the call's local variables
    p_result,     \* prospectus: what the call returned, or Raised
    s_pc,         \* snapshot: position in fetch_data912_snapshot
    s_ticker,     \* snapshot: the ticker argument
    s_feed,       \* snapshot: index into DATA912_ENDPOINTS of the current feed
    s_nodes,      \* snapshot: the dicts _walk yields for the current feed
    s_pos,        \* snapshot: index into s_nodes of the next dict
    snapshot,     \* snapshot: the dict being filled
    s_fetched,    \* snapshot: history of the feeds fetched, with their answers
    s_log,        \* snapshot: history of the dicts visited, with their feeds
    m_pc,         \* market: position in main, up to the market block
    m_in,         \* market: the file main is in, and its command-line arguments
    m_loc,        \* market: main's local variables
    market,       \* market: main's `market` / `mercado` dict
    f_pc,         \* functions: position of the call being exercised
    f_in,         \* functions: the function called, its arguments and its collaborators' answers
    f_out         \* functions: what the call returned, or Raised

vars == <<holidays, c_pc, c_d, c_n, c_use, c_r1, c_r2,
          today, queries, p_pc, p_in, p_loc, p_result,
          s_pc, s_ticker, s_feed, s_nodes, s_pos, snapshot, s_fetched, s_log,
          m_pc, m_in, m_loc, market,
          f_pc, f_in, f_out>>

snapshotVars == <<s_pc, s_ticker, s_feed, s_nodes, s_pos, snapshot, s_fetched, s_log>>

marketVars == <<m_pc, m_in, m_loc, market>>

calVars == <<c_pc, c_d, c_n, c_use, c_r1, c_r2>>

prospectusVars == <<today, queries, p_pc, p_in, p_loc, p_result>>

fnVars == <<f_pc, f_in, f_out>>

-----------------------------------------------------------------------------
(* Python values *)

None == [t |-> "None"]

Num(k) == [t |-> "num", n |-> k]

\* an int, in units
PyInt(k) == [t |-> "int", n |-> k]

\* one, in millionths
Unit == 1000000

\* abs(k)
Abs(k) == IF k < 0 THEN -k ELSE k

Date(y, m, d) == [year |-> y, month |-> m, day |-> d]

\* a str, as the sequence of its characters
Str(chars) == [t |-> "str", s |-> chars]

\* a list
List(elems) == [t |-> "list", elems |-> elems]

\* a dict, with its keys in insertion order
Dict(keys, vals) == [t |-> "dict", keys |-> keys, vals |-> vals]

\* a bool (an int to isinstance and float)
PyBool(b) == [t |-> "bool", b |-> b]

\* an exception leaving the call
Raised == [t |-> "raised"]

\* a complex number: what float ** float gives for a negative base
Complex == [t |-> "complex"]

\* an int above the range of float, as json gives for a number of 400 digits
HugeInt == [t |-> "hugeint"]

\* k in d
DictHas(d, k) == \E i \in 1 .. Len(d.keys) : d.keys[i] = k

\* d[k], for k in d
DictAt(d, k) == d.vals[CHOOSE i \in 1 .. Len(d.keys) : d.keys[i] = k]

\* d.get(k)
DictGet(d, k) == IF DictHas(d, k) THEN DictAt(d, k) ELSE None

\* bool(v) for the values tested for truth: None, 0, "", [] and {} are false
Truthy(v) ==
    CASE v.t = "None" -> FALSE
      [] v.t = "num" -> v.n # 0
      [] v.t = "int" -> v.n # 0
      [] v.t = "bool" -> v.b
      [] v.t = "str" -> Len(v.s) > 0
      [] v.t = "list" -> Len(v.elems) > 0
      [] v.t = "dict" -> Len(v.keys) > 0
      [] OTHER -> TRUE

-----------------------------------------------------------------------------
(* Text *)

LowerLetters ==
    << "a", "b", "c", "d", "e", "f", "g", "h", "i", "j", "k", "l", "m",
       "n", "o", "p", "q", "r", "s", "t", "u", "v", "w", "x", "y", "z" >>

UpperLetters ==
    << "A", "B", "C", "D", "E", "F", "G", "H", "I", "J", "K", "L", "M",
       "N", "O", "P", "Q", "R", "S", "T", "U", "V", "W", "X", "Y", "Z" >>

DigitChars == << "0", "1", "2", "3", "4", "5", "6", "7", "8", "9" >>

IsDigit(c) == \E i \in 1 .. 10 : DigitChars[i] = c

DigitVal(c) == (CHOOSE i \in 1 .. 10 : DigitChars[i] = c) - 1

\* str.upper() and str.lower(), character by character
UpperChar(c) ==
    IF \E i \in 1 .. 26 : LowerLetters[i] = c
    THEN UpperLetters[CHOOSE i \in 1 .. 26 : LowerLetters[i] = c] ELSE c

LowerChar(c) ==
    IF \E i \in 1 .. 26 : UpperLetters[i] = c
    THEN LowerLetters[CHOOSE i \in 1 .. 26 : UpperLetters[i] = c] ELSE c

Upper(s) == [i \in 1 .. Len(s) |-> UpperChar(s[i])]

Lower(s) == [i \in 1 .. Len(s) |-> LowerChar(s[i])]

\* needle in hay
Contains(hay, needle) ==
    \E i \in 0 .. (Len(hay) - Len(needle)) :
        \A j \in 1 .. Len(needle) : hay[i + j] = needle[j]

\* s.split(sep) for a one-character sep
RECURSIVE Split(_, _)
Split(s, sep) ==
    IF \E i \in 1 .. Len(s) : s[i] = sep
    THEN LET i == CHOOSE i \in 1 .. Len(s) :
                      s[i] = sep /\ \A j \in 1 .. (i - 1) : s[j] # sep
         IN <<SubSeq(s, 1, i - 1)>> \o Split(SubSeq(s, i + 1, Len(s)), sep)
    ELSE <<s>>

AllDigits(s) == Len(s) > 0 /\ \A i \in 1 .. Len(s) : IsDigit(s[i])

\* the value of a string of digits
RECURSIVE ParseNat(_)
ParseNat(s) ==
    IF Len(s) = 0 THEN 0
    ELSE ParseNat(SubSeq(s, 1, Len(s) - 1)) * 10 + DigitVal(s[Len(s)])

\* the decimal digits of a natural number, at least `width` of them
RECURSIVE NatText(_, _)
NatText(k, width) ==
    IF k < 10 /\ width <= 1 THEN <<DigitChars[k + 1]>>
    ELSE NatText(k \div 10, width - 1) \o <<DigitChars[(k % 10) + 1]>>

-----------------------------------------------------------------------------
(* datetime.date arithmetic (proleptic Gregorian calendar) *)

IsLeap(y) == (y % 4 = 0) /\ ((y % 100 # 0) \/ (y % 400 = 0))

DaysInMonth(y, m) ==
    IF m = 2 THEN (IF IsLeap(y) THEN 29 ELSE 28)
    ELSE IF m \in {4, 6, 9, 11} THEN 30 ELSE 31

DaysBeforeYear(y) ==
    LET p == y - 1 IN p * 365 + (p \div 4) - (p \div 100) + (p \div 400)

RECURSIVE DaysBeforeMonth(_, _)
DaysBeforeMonth(y, m) ==
    IF m = 1 THEN 0 ELSE DaysBeforeMonth(y, m - 1) + DaysInMonth(y, m - 1)

\* date.toordinal(): 0001-01-01 is day 1
ToOrdinal(d) == DaysBeforeYear(d.year) + DaysBeforeMonth(d.year, d.month) + d.day

\* date.weekday(): Monday is 0, Sunday is 6
Weekday(d) == (ToOrdinal(d) + 6) % 7

\* date + timedelta(days=step), step being 1 or -1
AddDay(d, step) ==
    IF step = 1
    THEN IF d.day < DaysInMonth(d.year, d.month) THEN Date(d.year, d.month, d.day + 1)
         ELSE IF d.month < 12 THEN Date(d.year, d.month + 1, 1)
         ELSE Date(d.year + 1, 1, 1)
    ELSE IF d.day > 1 THEN Date(d.year, d.month, d.day - 1)
         ELSE IF d.month > 1 THEN Date(d.year, d.month - 1, DaysInMonth(d.year, d.month - 1))
         ELSE Date(d.year - 1, 12, 31)

\* date comparison
DateLE(a, b) == ToOrdinal(a) <= ToOrdinal(b)

DateLT(a, b) == ToOrdinal(a) < ToOrdinal(b)

DateMin(a, b) == IF DateLT(b, a) THEN b ELSE a

-----------------------------------------------------------------------------
(* Conversions between text and values *)

\* date.isoformat(): YYYY-MM-DD
isoformat(d) ==
    NatText(d.year, 4) \o <<"-">> \o NatText(d.month, 2) \o <<"-">> \o NatText(d.day, 2)

\* datetime.strptime(s, fmt).date() for a format of three numeric fields joined
\* by sep, the year (%Y, four digits) first or last, %m and %d of one or two
\* digits; None stands for the ValueError
StrpDate(s, sep, yearFirst) ==
    LET parts == Split(s, sep) IN
    IF Len(parts) # 3 \/ \E i \in 1 .. 3 : ~AllDigits(parts[i]) THEN None
    ELSE LET ys == IF yearFirst THEN parts[1] ELSE parts[3]
             ds == IF yearFirst THEN parts[3] ELSE parts[1]
             ms == parts[2]
         IN  IF Len(ys) # 4 \/ Len(ms) > 2 \/ Len(ds) > 2 THEN None
             ELSE LET y == ParseNat(ys)
                      m == ParseNat(ms)
                      d == ParseNat(ds)
                  IN  IF y < 1 \/ m < 1 \/ m > 12 \/ d < 1 THEN None
                      ELSE IF d > DaysInMonth(y, m) THEN None
                      ELSE Date(y, m, d)

\* the formats _parse_date_any tries, in order:
\* %Y-%m-%d, %Y/%m/%d, %d/%m/%Y, %d-%m-%Y
DateFormats ==
    << [sep |-> "-", yearFirst |-> TRUE], [sep |-> "/", yearFirst |-> TRUE],
       [sep |-> "/", yearFirst |-> FALSE], [sep |-> "-", yearFirst |-> FALSE] >>

RECURSIVE ParseDateFrom(_, _)
ParseDateFrom(s, i) ==
    IF i > Len(DateFormats) THEN None
    ELSE LET d == StrpDate(s, DateFormats[i].sep, DateFormats[i].yearFirst) IN
         IF d # None THEN d ELSE ParseDateFrom(s, i + 1)

_parse_date_any(s) == ParseDateFrom(s, 1)

\* dt.date.fromisoformat(s) for YYYY-MM-DD; Raised stands for the ValueError
fromisoformat(s) ==
    LET parts == Split(s, "-") IN
    IF Len(s) = 10 /\ Len(parts) = 3 /\ Len(parts[1]) = 4 /\ Len(parts[2]) = 2
       /\ StrpDate(s, "-", TRUE) # None
    THEN StrpDate(s, "-", TRUE) ELSE Raised

\* the text of a plain decimal number: digits, optionally a point and up to six
\* more digits
IsDecimalText(s) ==
    LET parts == Split(s, ".") IN
    /\ Len(parts) \in {1, 2}
    /\ AllDigits(parts[1])
    /\ Len(parts) = 2 => (AllDigits(parts[2]) /\ Len(parts[2]) <= 6)

RECURSIVE Pow10(_)
Pow10(k) == IF k = 0 THEN 1 ELSE 10 * Pow10(k - 1)

DecimalValue(s) ==
    LET parts == Split(s, ".") IN
    ParseNat(parts[1]) * Unit
        + (IF Len(parts) = 2 THEN ParseNat(parts[2]) * Pow10(6 - Len(parts[2])) ELSE 0)

\* float(v): of a number, of the text of a plain decimal number with an
\* optional sign; Raised stands for the TypeError, ValueError or OverflowError
float(v) ==
    CASE v.t = "num" -> v
      [] v.t = "int" -> Num(v.n * Unit)
      [] v.t = "hugeint" -> Raised
      [] v.t = "bool" -> Num(IF v.b THEN Unit ELSE 0)
      [] v.t = "str" ->
            IF Len(v.s) > 1 /\ v.s[1] = "-" /\ IsDecimalText(Tail(v.s))
            THEN Num(-DecimalValue(Tail(v.s)))
            ELSE IF IsDecimalText(v.s) THEN Num(DecimalValue(v.s))
            ELSE Raised
      [] OTHER -> Raised

\* int(v): of a number (truncated toward zero), of a string of digits
int(v) ==
    CASE v.t = "int" -> v
      [] v.t = "bool" -> PyInt(IF v.b THEN 1 ELSE 0)
      [] v.t = "num" -> PyInt(IF v.n >= 0 THEN v.n \div Unit ELSE -((-v.n) \div Unit))
      [] v.t = "str" -> IF AllDigits(v.s) THEN PyInt(ParseNat(v.s)) ELSE Raised
      [] OTHER -> Raised

\* the digits after the point of str(float): trailing zeros dropped, one kept
RECURSIVE TrimZeros(_)
TrimZeros(s) ==
    IF Len(s) > 1 /\ s[Len(s)] = "0" THEN TrimZeros(SubSeq(s, 1, Len(s) - 1)) ELSE s

\* str(v) of a scalar; of a dict or list, its repr with every key and every
\* non-string scalar as one token
RECURSIVE PyStr(_)
RECURSIVE PyRepr(_)
RECURSIVE ReprItems(_, _)
PyStr(v) ==
    CASE v.t = "str" -> v.s
      [] v.t = "None" -> <<"N", "o", "n", "e">>
      [] v.t = "bool" -> IF v.b THEN <<"T", "r", "u", "e">> ELSE <<"F", "a", "l", "s", "e">>
      [] v.t = "int" -> (IF v.n < 0 THEN <<"-">> ELSE <<>>) \o NatText(Abs(v.n), 1)
      [] v.t = "num" ->
            (IF v.n < 0 THEN <<"-">> ELSE <<>>)
                \o NatText(Abs(v.n) \div Unit, 1) \o <<".">>
                \o TrimZeros(NatText(Abs(v.n) % Unit, 6))
      [] OTHER -> PyRepr(v)

PyRepr(v) ==
    CASE v.t = "str" -> <<"'">> \o v.s \o <<"'">>
      [] v.t = "list" -> <<"[">> \o ReprItems(v, 1) \o <<"]">>
      [] v.t = "dict" -> <<"{">> \o ReprItems(v, 1) \o <<"}">>
      [] OTHER -> PyStr(v)

ReprItems(v, i) ==
    LET n == IF v.t = "dict" THEN Len(v.keys) ELSE Len(v.elems) IN
    IF i > n THEN <<>>
    ELSE (IF i > 1 THEN <<",", " ">> ELSE <<>>)
         \o (IF v.t = "dict" THEN <<"'", v.keys[i], "'", ":", " ">> \o PyRepr(v.vals[i])
             ELSE PyRepr(v.elems[i]))
         \o ReprItems(v, i + 1)

-----------------------------------------------------------------------------
(* CalendarService *)

\* holidays.country_holidays("AR", years=[y]).keys(): the fixed-date national
\* holidays of year y
CountryHolidaysAR(y) ==
    { Date(y, 1, 1), Date(y, 3, 24), Date(y, 4, 2), Date(y, 5, 1), Date(y, 5, 25),
      Date(y, 6, 20), Date(y, 7, 9), Date(y, 12, 8), Date(y, 12, 25) }

\* build_ar_holidays(years): None without the module, else the union over years
build_ar_holidays(years) ==
    IF holidays = "None" THEN None
    ELSE [t |-> "set", elems |-> UNION { CountryHolidaysAR(y) : y \in years }]

is_business_day(date_obj, ar_holidays) ==
    IF Weekday(date_obj) >= 5 THEN FALSE
    ELSE IF ar_holidays # None /\ date_obj \in ar_holidays.elems THEN FALSE
    ELSE TRUE

\* step = 1 if offset_days > 0 else -1
ShiftStep_NoSign(offset_days) == 1

ShiftStep(offset_days) == IF offset_days > 0 THEN 1 ELSE -1

\* the while loop of shift_business_days, and a variant that tests the day it
\* stands on before stepping
RECURSIVE ShiftLoop_CountStart(_, _, _, _)
ShiftLoop_CountStart(current, step, remaining, ar_h) ==
    IF remaining > 0
    THEN ShiftLoop_CountStart(AddDay(current, step), step,
                              IF is_business_day(current, ar_h) THEN remaining - 1
                              ELSE remaining, ar_h)
    ELSE current

RECURSIVE ShiftLoop(_, _, _, _)
ShiftLoop(current, step, remaining, ar_h) ==
    IF remaining > 0
    THEN LET next == AddDay(current, step) IN
         ShiftLoop(next, step,
                   IF is_business_day(next, ar_h) THEN remaining - 1 ELSE remaining,
                   ar_h)
    ELSE current

\* the holiday set shift_business_days builds for date_obj
ShiftHolidays(date_obj, use_holidays) ==
    IF use_holidays THEN build_ar_holidays((date_obj.year - 1) .. (date_obj.year + 3))
    ELSE None

shift_business_days(date_obj, offset_days, use_holidays) ==
    IF offset_days = 0 THEN date_obj
    ELSE ShiftLoop(date_obj, ShiftStep(offset_days), Abs(offset_days),
                   ShiftHolidays(date_obj, use_holidays))

-----------------------------------------------------------------------------
(* RateConversion *)

\* 365.0 / 32.0 = 11.40625, in millionths
TamarBase == 11406250

\* ((1 + x/base) ** base) ** (1/12) - 1 at x = first component, in millionths
TamarTemTable ==
    { <<-11406250, -1000000>>,
      <<-600000, -50066>>, <<-550000, -45889>>, <<-500000, -41713>>,
      <<-450000, -37537>>, <<-400000, -33363>>, <<-350000, -29189>>,
      <<-300000, -25016>>, <<-250000, -20845>>, <<-200000, -16674>>,
      <<-150000, -12504>>, <<-100000, -8335>>, <<-50000, -4167>>, <<0, 0>>,
      <<50000, 4166>>, <<100000, 8332>>, <<150000, 12496>>, <<200000, 16659>>,
      <<250000, 20822>>, <<300000, 24984>>, <<350000, 29145>>, <<400000, 33305>>,
      <<450000, 37464>>, <<500000, 41622>>, <<550000, 45780>>, <<600000, 49936>> }

\* the second component of the pair of `table` whose first component is x
Lookup(table, x) == (CHOOSE pr \in table : pr[1] = x)[2]

\* a negative float to a fractional power is a complex number
tamar_to_tem_monthly(tamar_as_decimal) ==
    IF tamar_as_decimal.n < -TamarBase THEN Complex
    ELSE Num(Lookup(TamarTemTable, tamar_as_decimal.n))

\* max(a, b): b if b > a, else a; comparing with a complex number raises TypeError
PyMax_First(a, b) == IF a.t = "complex" \/ b.t = "complex" THEN Raised ELSE a

PyMax(a, b) ==
    IF a.t = "complex" \/ b.t = "complex" THEN Raised
    ELSE IF b.n > a.n THEN b ELSE a

-----------------------------------------------------------------------------
(* JSON-fetch collaborator *)

\* what the network does with one request
NetFail == [t |-> "fail"]

NetOk(body) == [t |-> "ok", body |-> body]

\* http_get_json: on a failed request bond_tem.py returns None, ttm26_tem.py
\* lets the exception go
http_get_json(impl, net) ==
    IF net.t = "ok" THEN net.body
    ELSE IF impl = "bond_tem" THEN None ELSE Raised

\* a request as issued: the listing (var_id None) or one series over a window
ListingQuery == [var_id |-> None, desde |-> None, hasta |-> None]

SeriesQuery(var_id, desde, hasta) ==
    [var_id |-> var_id, desde |-> Str(isoformat(desde)), hasta |-> Str(isoformat(hasta))]

-----------------------------------------------------------------------------
(* RateSeriesResolver *)

\* data.get("results") or []
ResultsOf(data) ==
    LET r == DictGet(data, "results") IN IF Truthy(r) THEN r ELSE List(<<>>)

T_tamar == <<"t", "a", "m", "a", "r">>

T_promedio == <<"p", "r", "o", "m", "e", "d", "i", "o">>

T_bancos == <<"b", "a", "n", "c", "o", "s">>

T_privados == <<"p", "r", "i", "v", "a", "d", "o", "s">>

T_plazo_fijo == <<"p", "l", "a", "z", "o", " ", "f", "i", "j", "o">>

T_mil_millones == <<"m", "i", "l", " ", "m", "i", "l", "l", "o", "n", "e", "s">>

T_1_000_000_000 == <<"1", ".", "0", "0", "0", ".", "0", "0", "0", ".", "0", "0", "0">>

T_1000000000 == <<"1", "0", "0", "0", "0", "0", "0", "0", "0", "0">>

score(desc) ==
    LET dlow == Lower(desc) IN
    << Contains(dlow, T_tamar),
       Contains(dlow, T_promedio) /\ Contains(dlow, T_bancos) /\ Contains(dlow, T_privados),
       Contains(dlow, T_plazo_fijo),
       Contains(dlow, T_mil_millones) \/ Contains(dlow, T_1_000_000_000)
           \/ Contains(dlow, T_1000000000) >>

\* a >= b in place of a > b: the later of two equal scores would win
RECURSIVE TupleGT_OrEqual(_, _, _)
TupleGT_OrEqual(a, b, i) ==
    IF i > Len(a) THEN TRUE
    ELSE IF a[i] # b[i] THEN a[i]
    ELSE TupleGT_OrEqual(a, b, i + 1)

\* a > b for tuples of booleans, compared left to right, False < True
RECURSIVE TupleGT(_, _, _)
TupleGT(a, b, i) ==
    IF i > Len(a) THEN FALSE
    ELSE IF a[i] # b[i] THEN a[i]
    ELSE TupleGT(a, b, i + 1)

\* the loop over the listing: best is None or the pair (var_id, score)
RECURSIVE BestMatch(_, _, _)
BestMatch(results, i, best) ==
    IF i > Len(results.elems) THEN best
    ELSE LET item == results.elems[i]
             var_id == IF item.t = "dict" THEN int(DictGet(item, "idVariable")) ELSE Raised
         IN  IF var_id = Raised THEN BestMatch(results, i + 1, best)
             ELSE LET d == DictGet(item, "descripcion")
                      sc == score(IF Truthy(d) THEN PyStr(d) ELSE <<>>)
                  IN  IF best = None \/ TupleGT(sc, best.sc, 1)
                      THEN BestMatch(results, i + 1, [t |-> "tuple", var_id |-> var_id, sc |-> sc])
                      ELSE BestMatch(results, i + 1, best)

\* find_tamar_variable_id, the listing request answered by net
find_tamar_variable_id(impl, net) ==
    LET data == http_get_json(impl, net) IN
    IF data = Raised THEN Raised
    ELSE IF data.t # "dict" THEN None
    ELSE IF ResultsOf(data).t # "list" THEN None
    ELSE LET best == BestMatch(ResultsOf(data), 1, None) IN
         IF best # None /\ best.sc[1] THEN best.var_id ELSE None

\* var_id = id_variable or find_tamar_variable_id()
ResolveVarId(impl, id_variable, netListing) ==
    IF Truthy(id_variable) THEN id_variable ELSE find_tamar_variable_id(impl, netListing)

\* the requests a fetch issues: the listing when the id must be discovered,
\* then the series when an id is known
FetchQueries(impl, id_variable, desde, hasta, netListing) ==
    LET var_id == ResolveVarId(impl, id_variable, netListing) IN
    (IF Truthy(id_variable) THEN <<>> ELSE <<ListingQuery>>)
        \o (IF var_id = Raised \/ var_id = None THEN <<>>
            ELSE <<SeriesQuery(var_id, desde, hasta)>>)

\* valores: float(row.get("valor")) of every row where that does not raise
RECURSIVE Valores(_, _)
Valores(results, i) ==
    IF i > Len(results.elems) THEN <<>>
    ELSE LET row == results.elems[i]
             v == IF row.t = "dict" THEN float(DictGet(row, "valor")) ELSE Raised
         IN  (IF v = Raised THEN <<>> ELSE <<v.n>>) \o Valores(results, i + 1)

RECURSIVE Sum(_)
Sum(seq) == IF Len(seq) = 0 THEN 0 ELSE Head(seq) + Sum(Tail(seq))

\* fetch_tamar_series_average
fetch_tamar_series_average(impl, id_variable, desde, hasta, netListing, netSeries) ==
    LET var_id == ResolveVarId(impl, id_variable, netListing) IN
    IF var_id = Raised THEN Raised
    ELSE IF var_id = None THEN None
    ELSE LET data == http_get_json(impl, netSeries) IN
         IF data = Raised THEN Raised
         ELSE IF data.t # "dict" THEN None
         ELSE LET results == ResultsOf(data) IN
              IF results.t # "list" \/ ~Truthy(results) THEN None
              ELSE LET valores == Valores(results, 1) IN
                   IF Len(valores) = 0 THEN None
                   ELSE Num((Sum(valores) \div Len(valores)) \div 100)

\* out: the rows whose valor and fecha both convert, in listing order
RECURSIVE SeriesRowsOut(_, _)
SeriesRowsOut(results, i) ==
    IF i > Len(results.elems) THEN <<>>
    ELSE LET row == results.elems[i]
             fstr == IF row.t = "dict" THEN PyStr(DictGet(row, "fecha")) ELSE <<>>
             v == IF row.t = "dict" THEN float(DictGet(row, "valor")) ELSE Raised
             d == IF _parse_date_any(fstr) # None THEN _parse_date_any(fstr)
                  ELSE fromisoformat(fstr)
         IN  (IF v = Raised \/ d = Raised THEN <<>>
              ELSE << [fecha |-> d, valor_percent |-> v] >>)
             \o SeriesRowsOut(results, i + 1)

\* list.sort(key=fecha): stable, ascending
RECURSIVE SortByFecha(_)
SortByFecha(out) ==
    IF Len(out) <= 1 THEN out
    ELSE LET rest == SortByFecha(SubSeq(out, 1, Len(out) - 1))
             x == out[Len(out)]
             k == Cardinality({ i \in 1 .. Len(rest) : DateLE(rest[i].fecha, x.fecha) })
         IN  SubSeq(rest, 1, k) \o <<x>> \o SubSeq(rest, k + 1, Len(rest))

\* fetch_tamar_series_values (bond_tem.py)
fetch_tamar_series_values(impl, id_variable, desde, hasta, netListing, netSeries) ==
    LET var_id == ResolveVarId(impl, id_variable, netListing) IN
    IF var_id = Raised THEN Raised
    ELSE IF var_id = None THEN None
    ELSE LET data == http_get_json(impl, netSeries) IN
         IF data = Raised THEN Raised
         ELSE IF data.t # "dict" THEN None
         ELSE LET results == ResultsOf(data) IN
              IF results.t # "list" \/ ~Truthy(results) THEN None
              ELSE List(SortByFecha(SeriesRowsOut(results, 1)))

-----------------------------------------------------------------------------
(* Parts of the state a specification does not use *)

CalendarIdle ==
    /\ c_pc = "idle"
    /\ c_d = None
    /\ c_n = 0
    /\ c_use = FALSE
    /\ c_r1 = None
    /\ c_r2 = None

ProspectusIdle ==
    /\ today = None
    /\ queries = <<>>
    /\ p_pc = "idle"
    /\ p_in = None
    /\ p_loc = None
    /\ p_result = None

SnapshotIdle ==
    /\ s_pc = "idle"
    /\ s_ticker = <<>>
    /\ s_feed = 0
    /\ s_nodes = <<>>
    /\ s_pos = 0
    /\ snapshot = None
    /\ s_fetched = <<>>
    /\ s_log = <<>>

FunctionsIdle ==
    /\ f_pc = "idle"
    /\ f_in = None
    /\ f_out = None

MarketIdle ==
    /\ m_pc = "idle"
    /\ m_in = None
    /\ m_loc = None
    /\ market = None

-----------------------------------------------------------------------------
(* Calendar exercise: shift a date, then shift the result back *)

\* bounds of the exercise
CalDays == 16

MaxOffset == 3

RECURSIVE DatesFrom(_, _)
DatesFrom(d, k) == IF k = 0 THEN {d} ELSE {d} \cup DatesFrom(AddDay(d, 1), k - 1)

\* a window over a year end: two weekends, 25 December and 1 January
CalDates == DatesFrom(Date(2025, 12, 20), CalDays)

HolidayModules == {"None", "AR"}

CalInit ==
    /\ holidays \in HolidayModules
    /\ c_pc = "start"
    /\ c_d \in CalDates
    /\ c_n \in (-MaxOffset) .. MaxOffset
    /\ c_use \in BOOLEAN
    /\ c_r1 = None
    /\ c_r2 = None
    /\ FunctionsIdle
    /\ ProspectusIdle
    /\ SnapshotIdle
    /\ MarketIdle

CalShift ==
    /\ c_pc = "start"
    /\ c_r1' = shift_business_days(c_d, c_n, c_use)
    /\ c_pc' = "shifted"
    /\ UNCHANGED <<holidays, fnVars, c_d, c_n, c_use, c_r2, prospectusVars, snapshotVars, marketVars>>

CalShiftBack ==
    /\ c_pc = "shifted"
    /\ c_r2' = shift_business_days(c_r1, -c_n, c_use)
    /\ c_pc' = "back"
    /\ UNCHANGED <<holidays, fnVars, c_d, c_n, c_use, c_r1, prospectusVars, snapshotVars, marketVars>>

CalNext == CalShift \/ CalShiftBack

SpecCalendar == CalInit /\ [][CalNext]_vars

-----------------------------------------------------------------------------
(* Claims about the calendar *)

\* the dates strictly beyond d up to and including r, on either side of d
DatesBeyond(d, r) ==
    IF DateLT(d, r) THEN DatesFrom(AddDay(d, 1), ToOrdinal(r) - ToOrdinal(d) - 1)
    ELSE IF DateLT(r, d) THEN DatesFrom(r, ToOrdinal(d) - ToOrdinal(r) - 1)
    ELSE {}

\* C8 as stated: under a weekends-only calendar (use_holidays = false), for
\* every date d, business day or not, and every integer n, shifting d by n and
\* the result by -n returns d.
C8_RoundTripEveryDate ==
    (c_pc = "back" /\ ~c_use) => c_r2 = c_d

\* C8 as amended: under a weekends-only calendar (use_holidays = false), for
\* every date d that is a weekday (Monday to Friday), or for n = 0, shifting d
\* by n and the result by -n returns d.
C8_RoundTripFromWeekday ==
    (c_pc = "back" /\ ~c_use /\ (Weekday(c_d) < 5 \/ c_n = 0)) => c_r2 = c_d

\* a Friday shifted forward over the weekend and back again
C8_Witness ==
    /\ c_pc = "back"
    /\ ~c_use
    /\ Weekday(c_d) = 4
    /\ c_n > 0
    /\ Weekday(c_r1) = 0
    /\ c_r2 = c_d

\* C9: shift_business_days(d, 0) is d itself, even on a weekend or holiday; for
\* n # 0 the loop ends and returns a business day r on the sign side of d with
\* exactly |n| business days strictly beyond d up to and including r.
C9_ShiftLandsOnNthBusinessDay ==
    (c_pc # "start") =>
        LET ar_h == ShiftHolidays(c_d, c_use) IN
        IF c_n = 0 THEN c_r1 = c_d
        ELSE /\ is_business_day(c_r1, ar_h)
             /\ (c_n > 0 => DateLT(c_d, c_r1))
             /\ (c_n < 0 => DateLT(c_r1, c_d))
             /\ Cardinality({ x \in DatesBeyond(c_d, c_r1) : is_business_day(x, ar_h) })
                    = Abs(c_n)

\* three business days back from Friday 26 December 2025, over the holiday of
\* the 25th, and a zero shift of a Saturday
C9_Witness ==
    /\ c_pc = "shifted"
    /\ holidays = "AR"
    /\ c_use
    /\ \/ (c_d = Date(2025, 12, 26) /\ c_n = -3 /\ c_r1 = Date(2025, 12, 22))
       \/ (Weekday(c_d) = 5 /\ c_n = 0 /\ c_r1 = c_d)

-----------------------------------------------------------------------------
(* ProspectusTEMEngine: compute_dual_prospectus_tem (bond_tem.py) and
   compute_prospectus_tem (ttm26_tem.py) *)

\* DUAL_BONDS_MAP
DUAL_BONDS_MAP ==
    [ TTM26 |-> [fixed_monthly_tem |-> Num(22500), maturity |-> Date(2026, 3, 16),
                 issue |-> Date(2025, 1, 29), tirea_decimal |-> Num(305500)],
      TTJ26 |-> [fixed_monthly_tem |-> Num(21900), maturity |-> Date(2026, 6, 30),
                 issue |-> Date(2025, 1, 29), tirea_decimal |-> Num(296500)],
      TTS26 |-> [fixed_monthly_tem |-> Num(21700), maturity |-> Date(2026, 9, 15),
                 issue |-> Date(2025, 1, 29), tirea_decimal |-> Num(293100)],
      TTD26 |-> [fixed_monthly_tem |-> Num(21400), maturity |-> Date(2026, 12, 15),
                 issue |-> Date(2025, 1, 29), tirea_decimal |-> Num(289300)] ]

\* DualProspectusParams / ProspectusParams of a catalog entry
ParamsOf(meta) ==
    [issue_date |-> meta.issue, maturity_date |-> meta.maturity,
     fixed_monthly_tem |-> meta.fixed_monthly_tem]

\* the window offset: shift_business_days(..., -10, ...)
WindowOffset == -10

\* the upper bound of the series requests: bond_tem.py clamps the window end to
\* today, ttm26_tem.py passes the window end
QueryEnd(impl, end_window, now) ==
    IF impl = "bond_tem" THEN DateMin(end_window, now) ELSE end_window

\* series_values[-5:]
LastN(seq, k) == IF Len(seq) <= k THEN seq ELSE SubSeq(seq, Len(seq) - k + 1, Len(seq))

\* the audit fields of bond_tem.py's result, from series_values
AuditFields(series_values) ==
    IF series_values # None /\ Truthy(series_values)
    THEN LET sv == series_values.elems
             last == sv[Len(sv)]
         IN  [tamar_latest_percent |-> last.valor_percent,
              tamar_latest_tem |-> tamar_to_tem_monthly(Num(last.valor_percent.n \div 100)),
              tamar_last_5_percent |->
                  List([i \in 1 .. Len(LastN(sv, 5)) |-> LastN(sv, 5)[i].valor_percent]),
              tamar_samples_count |-> Len(sv),
              tamar_sample_range |->
                  [from |-> Str(isoformat(sv[1].fecha)), to |-> Str(isoformat(last.fecha))]]
    ELSE [tamar_latest_percent |-> None, tamar_latest_tem |-> None,
          tamar_last_5_percent |-> None, tamar_samples_count |-> 0,
          tamar_sample_range |-> None]

\* tem = max(fixed_tem, tamar_tem) if tamar_tem is not None else fixed_tem
FinalTem(fixed_tem, tamar_tem) ==
    IF tamar_tem # None THEN PyMax(fixed_tem, tamar_tem) ELSE fixed_tem

\* the value returned, or Raised when max() meets a complex tamar_tem
ProspectusResult(in, loc) ==
    LET tamar_tem == IF loc.tamar_avg_decimal # None
                     THEN tamar_to_tem_monthly(loc.tamar_avg_decimal) ELSE None
        fixed_tem == in.params.fixed_monthly_tem
        tem == FinalTem(fixed_tem, tamar_tem)
    IN  IF tem = Raised THEN Raised
        ELSE [issue_date |-> Str(isoformat(in.params.issue_date)),
              maturity_date |-> Str(isoformat(in.params.maturity_date)),
              window_start_10bd |-> Str(isoformat(loc.start_window)),
              window_end_10bd |-> Str(isoformat(loc.end_window)),
              tamar_avg_decimal |-> loc.tamar_avg_decimal,
              tamar_tem |-> tamar_tem,
              fixed_tem |-> fixed_tem,
              tem_prospectus |-> tem,
              tamar_source |-> loc.tamar_source,
              audit |-> IF in.impl = "bond_tem" THEN AuditFields(loc.series_values)
                        ELSE None]

\* bounds and inputs of the prospectus specification
MaxRows == 2

SeqsUpTo(S, n) == UNION { [1 .. k -> S] : k \in 0 .. n }

SeriesRow(fecha, valor) == Dict(<<"fecha", "valor">>, <<Str(fecha), valor>>)

\* rows of a series answer: a number with an ISO date, a negative number with a
\* day-first date, a numeric text with no usable date, a row without a value
SeriesRowSet ==
    { SeriesRow(isoformat(Date(2025, 3, 4)), Num(60 * Unit)),
      SeriesRow(<<"0", "3", "/", "0", "3", "/", "2", "0", "2", "5">>, Num(-60 * Unit)),
      SeriesRow(<<"n", "/", "a">>, Str(<<"3", "0">>)),
      Dict(<<"fecha">>, <<Str(isoformat(Date(2025, 3, 5)))>>) }

SeriesNets ==
    { NetFail, NetOk(List(<<>>)), NetOk(Dict(<<"status">>, <<PyInt(200)>>)),
      NetOk(Dict(<<"results">>, <<Str(<<"x">>)>>)) }
    \cup { NetOk(Dict(<<"results">>, <<List(rows)>>)) : rows \in SeqsUpTo(SeriesRowSet, MaxRows) }

ListingItem(id, desc) == Dict(<<"idVariable", "descripcion">>, <<id, Str(desc)>>)

ListingNets ==
    { NetFail,
      NetOk(Dict(<<"results">>, <<List(<<
          ListingItem(PyInt(7), <<"B", "A", "D", "L", "A", "R">>),
          ListingItem(PyInt(44), <<"T", "A", "M", "A", "R", " ", "b", "a", "n", "c", "o", "s">>) >>)>>)),
      NetOk(Dict(<<"results">>, <<List(<<
          ListingItem(PyInt(7), <<"B", "A", "D", "L", "A", "R">>) >>)>>)) }

Todays == { Date(2025, 1, 2), Date(2025, 6, 2), Date(2026, 6, 1) }

ProspectusInputs ==
    { [impl |-> impl, params |-> ParamsOf(DUAL_BONDS_MAP[tk]), use_holidays |-> use,
       tamar_id |-> id, tamar_avg_override |-> ov] :
        impl \in {"bond_tem", "ttm26_tem"}, tk \in {"TTM26", "TTD26"}, use \in BOOLEAN,
        id \in {None, PyInt(44)},
        ov \in {None, Num(-12 * Unit), Num(-500000), Num(0), Num(500000)} }

ProspectusInit ==
    /\ holidays = "AR"
    /\ CalendarIdle
    /\ FunctionsIdle
    /\ SnapshotIdle
    /\ MarketIdle
    /\ today \in Todays
    /\ queries = <<>>
    /\ p_pc = "start"
    /\ p_in \in ProspectusInputs
    /\ p_loc = None
    /\ p_result = None

\* the windows with no override branch: the average is fetched in every call
ProspectusWindows_AlwaysFetch ==
    /\ p_pc = "start"
    /\ LET start_window == shift_business_days(p_in.params.issue_date, WindowOffset,
                                               p_in.use_holidays)
           end_window == shift_business_days(p_in.params.maturity_date, WindowOffset,
                                             p_in.use_holidays)
       IN  p_loc' = [start_window |-> start_window, end_window |-> end_window,
                     query_end |-> QueryEnd(p_in.impl, end_window, today),
                     tamar_avg_decimal |-> p_in.tamar_avg_override,
                     series_values |-> None,
                     tamar_source |-> "pending"]
    /\ p_pc' = "fetch_average"
    /\ UNCHANGED <<holidays, fnVars, calVars, snapshotVars, marketVars, today, queries, p_in, p_result>>

\* the two windows, the clamp, and the override branch
ProspectusWindows ==
    /\ p_pc = "start"
    /\ LET start_window == shift_business_days(p_in.params.issue_date, WindowOffset,
                                               p_in.use_holidays)
           end_window == shift_business_days(p_in.params.maturity_date, WindowOffset,
                                             p_in.use_holidays)
           ov == p_in.tamar_avg_override
       IN  /\ p_loc' = [start_window |-> start_window, end_window |-> end_window,
                        query_end |-> QueryEnd(p_in.impl, end_window, today),
                        tamar_avg_decimal |-> ov,
                        series_values |-> None,
                        tamar_source |-> IF ov # None THEN "override" ELSE "pending"]
           /\ p_pc' = IF ov # None THEN "return" ELSE "fetch_average"
    /\ UNCHANGED <<holidays, fnVars, calVars, snapshotVars, marketVars, today, queries, p_in, p_result>>

\* tamar_avg_decimal = fetch_tamar_series_average(tamar_id, start, end)
ProspectusFetchAverage ==
    /\ p_pc = "fetch_average"
    /\ \E netListing \in ListingNets, netSeries \in SeriesNets :
        LET avg == fetch_tamar_series_average(p_in.impl, p_in.tamar_id, p_loc.start_window,
                                              p_loc.query_end, netListing, netSeries)
        IN  /\ queries' = queries \o FetchQueries(p_in.impl, p_in.tamar_id,
                                                  p_loc.start_window, p_loc.query_end,
                                                  netListing)
            /\ IF avg = Raised
               THEN /\ p_result' = Raised
                    /\ p_pc' = "done"
                    /\ p_loc' = p_loc
               ELSE /\ p_result' = p_result
                    /\ p_pc' = IF p_in.impl = "bond_tem" THEN "fetch_series" ELSE "return"
                    /\ p_loc' = [p_loc EXCEPT !.tamar_avg_decimal = avg,
                                              !.tamar_source = IF avg # None THEN "bcra_api"
                                                               ELSE "unavailable"]
    /\ UNCHANGED <<holidays, fnVars, calVars, snapshotVars, marketVars, today, p_in>>

\* series_values = fetch_tamar_series_values(tamar_id, start, clamped_end)
ProspectusFetchSeries ==
    /\ p_pc = "fetch_series"
    /\ \E netListing \in ListingNets, netSeries \in SeriesNets :
        /\ queries' = queries \o FetchQueries(p_in.impl, p_in.tamar_id, p_loc.start_window,
                                              p_loc.query_end, netListing)
        /\ p_loc' = [p_loc EXCEPT !.series_values =
                        fetch_tamar_series_values(p_in.impl, p_in.tamar_id,
                                                  p_loc.start_window, p_loc.query_end,
                                                  netListing, netSeries)]
    /\ p_pc' = "return"
    /\ UNCHANGED <<holidays, fnVars, calVars, snapshotVars, marketVars, today, p_in, p_result>>

\* tamar_tem, tem and the returned dict
ProspectusReturn ==
    /\ p_pc = "return"
    /\ p_result' = ProspectusResult(p_in, p_loc)
    /\ p_pc' = "done"
    /\ UNCHANGED <<holidays, fnVars, calVars, snapshotVars, marketVars, today, queries, p_in, p_loc>>

ProspectusNext ==
    \/ ProspectusWindows
    \/ ProspectusFetchAverage
    \/ ProspectusFetchSeries
    \/ ProspectusReturn

SpecProspectus == ProspectusInit /\ [][ProspectusNext]_vars

-----------------------------------------------------------------------------
(* Claims about the prospectus engine *)

\* the call has returned a result (it did not raise)
ProspectusReturned == p_pc = "done" /\ p_result # Raised

\* C1: whenever a reference-rate TEM is resolved (from an override or from a
\* fetched average, negative rates included), the returned final TEM equals
\* max(fixedTEM, referenceTEM), and so is never lower than fixedTEM.
C1_FinalIsMaxOfFixedAndReference ==
    (ProspectusReturned /\ p_result.tamar_tem # None) =>
        LET fixed == p_in.params.fixed_monthly_tem.n
            ref == p_result.tamar_tem.n
            final == p_result.tem_prospectus.n
        IN  /\ p_result.tamar_tem = tamar_to_tem_monthly(p_loc.tamar_avg_decimal)
            /\ final = (IF ref > fixed THEN ref ELSE fixed)
            /\ final >= fixed

\* a fetched average whose TEM is above the fixed TEM, and is the final TEM
C1_Witness ==
    /\ ProspectusReturned
    /\ p_in.tamar_avg_override = None
    /\ p_result.tamar_tem # None
    /\ p_result.tamar_tem.n > p_in.params.fixed_monthly_tem.n
    /\ p_result.tem_prospectus = p_result.tamar_tem

\* a negative reference rate, floored by the fixed TEM
C1_WitnessNegative ==
    /\ ProspectusReturned
    /\ p_result.tamar_tem # None
    /\ p_result.tamar_tem.n < 0
    /\ p_result.tem_prospectus = p_in.params.fixed_monthly_tem

\* C2: with no average override, whenever the reference-rate average cannot be
\* resolved (discovery fails, the fetch fails, the answer is no mapping, the
\* series is empty, no row has a usable value), the computation does not raise:
\* it returns final TEM = fixedTEM, no reference TEM, source "unavailable".
C2_UnresolvedAverageGivesFixed ==
    (p_pc = "done" /\ p_in.tamar_avg_override = None /\ p_loc.tamar_avg_decimal = None) =>
        /\ p_result # Raised
        /\ p_result.tem_prospectus = p_in.params.fixed_monthly_tem
        /\ p_result.tamar_tem = None
        /\ p_result.tamar_source = "unavailable"

\* C10: every rate-series request of the prospectus computation runs from
\* issue - 10 business days to min(maturity - 10 business days, today); none
\* has an upper bound after today.
C10_SeriesRequestsAreClamped ==
    \A i \in 1 .. Len(queries) :
        queries[i].var_id # None =>
            LET start_window == shift_business_days(p_in.params.issue_date, WindowOffset,
                                                    p_in.use_holidays)
                end_window == shift_business_days(p_in.params.maturity_date, WindowOffset,
                                                  p_in.use_holidays)
            IN  /\ queries[i].desde = Str(isoformat(start_window))
                /\ queries[i].hasta = Str(isoformat(DateMin(end_window, today)))
                /\ DateLE(_parse_date_any(queries[i].hasta.s), today)

\* the requests of one fetch of bond_tem.py over the call's window, for each
\* way the listing request can be answered
FetchRequests ==
    { FetchQueries("bond_tem", p_in.tamar_id, p_loc.start_window, p_loc.query_end, net) :
        net \in ListingNets }

\* C16: in compute_dual_prospectus_tem, with an average override no request
\* for the rate series is issued, the override is the average, the source is
\* "override" and the audit fields are null with a sample count of 0; with no
\* override the average fetch and then the series fetch are issued, over the
\* same window, and the source is "unavailable" exactly when the average is
\* absent.
C16_OverrideIssuesNoFetch ==
    /\ (p_pc = "fetch_series" /\ p_in.impl = "bond_tem") =>
           /\ p_in.tamar_avg_override = None
           /\ queries \in FetchRequests
           /\ p_loc.series_values = None
    /\ (p_pc = "done" /\ p_in.impl = "bond_tem") =>
           IF p_in.tamar_avg_override # None
           THEN /\ queries = <<>>
                /\ p_loc.tamar_avg_decimal = p_in.tamar_avg_override
                /\ p_loc.tamar_source = "override"
                /\ p_result # Raised =>
                       /\ p_result.tamar_avg_decimal = p_in.tamar_avg_override
                       /\ p_result.tamar_source = "override"
                       /\ p_result.audit =
                              [tamar_latest_percent |-> None, tamar_latest_tem |-> None,
                               tamar_last_5_percent |-> None, tamar_samples_count |-> 0,
                               tamar_sample_range |-> None]
           ELSE /\ \E q1 \in FetchRequests, q2 \in FetchRequests : queries = q1 \o q2
                /\ \A i \in 1 .. Len(queries) :
                       queries[i].var_id # None =>
                           /\ queries[i].desde = Str(isoformat(p_loc.start_window))
                           /\ queries[i].hasta = Str(isoformat(p_loc.query_end))
                /\ p_result # Raised
                /\ p_result.tamar_source \in {"bcra_api", "unavailable"}
                /\ (p_result.tamar_source = "unavailable")
                       <=> (p_result.tamar_avg_decimal = None)

\* an override, no request, and the result tagged "override"
C16_Witness ==
    /\ p_pc = "done"
    /\ p_in.impl = "bond_tem"
    /\ p_in.tamar_avg_override # None
    /\ p_result # Raised
    /\ queries = <<>>
    /\ p_result.tamar_source = "override"
    /\ p_result.audit.tamar_samples_count = 0

\* no override: the listing and the series requested by the average fetch and
\* again by the series fetch, the average absent but rows in the audit series
C16_WitnessFetched ==
    /\ p_pc = "done"
    /\ p_in.impl = "bond_tem"
    /\ p_in.tamar_avg_override = None
    /\ Len(queries) = 4
    /\ p_result.tamar_source = "unavailable"
    /\ p_result.audit.tamar_samples_count > 0

\* the percent values of the audit series, in order
AuditValues ==
    IF p_loc.series_values = None THEN <<>>
    ELSE [i \in 1 .. Len(p_loc.series_values.elems) |->
              p_loc.series_values.elems[i].valor_percent.n]

\* C19: in a result of compute_dual_prospectus_tem computed with no override,
\* the average is present exactly when the sample count is positive, the
\* sample count is the number of values of the audit series, and the average
\* is the mean of those percent values divided by 100.
C19_AverageIsMeanOfAuditSeries ==
    (ProspectusReturned /\ p_in.impl = "bond_tem" /\ p_in.tamar_avg_override = None) =>
        LET count == p_result.audit.tamar_samples_count IN
        /\ count = Len(AuditValues)
        /\ (p_result.tamar_avg_decimal # None) <=> (count > 0)
        /\ p_result.tamar_avg_decimal # None =>
               p_result.tamar_avg_decimal = Num((Sum(AuditValues) \div count) \div 100)

-----------------------------------------------------------------------------
(* MarketSnapshotResolver: fetch_data912_snapshot (bond_tem.py) *)

\* DATA912_ENDPOINTS, by name
DATA912_ENDPOINTS == <<"arg_bonds", "arg_notes">>

SymbolKeys == <<"symbol", "ticker", "code", "name", "bond">>

PriceKeys == <<"last", "price", "close", "p", "c", "px">>

YieldKeys == <<"ytm", "yield", "tirea", "tir", "ear">>

FaceKeys == <<"face", "par", "vn">>

MaturityKeys == <<"maturity", "maturityDate", "due", "vencimiento", "vto">>

\* _walk(node): every dict, parents before children, in order
RECURSIVE _walk(_)
RECURSIVE WalkAll(_, _)
_walk(node) ==
    CASE node.t = "dict" -> <<node>> \o WalkAll(node.vals, 1)
      [] node.t = "list" -> WalkAll(node.elems, 1)
      [] OTHER -> <<>>

WalkAll(seq, i) == IF i > Len(seq) THEN <<>> ELSE _walk(seq[i]) \o WalkAll(seq, i + 1)

\* _normalize_yield: a value of magnitude above 1.0 is a percentage
_normalize_yield(val) == IF Abs(val.n) > Unit THEN Num(val.n \div 100) ELSE val

\* isinstance(v, (int, float))
IsNumber(v) == v.t \in {"int", "hugeint", "num", "bool"}

\* the obj qualifies: some symbol-like field holds text containing the ticker
Qualifies(obj, ticker_u) ==
    \E i \in 1 .. Len(SymbolKeys) :
        /\ DictHas(obj, SymbolKeys[i])
        /\ Contains(Upper(PyStr(DictAt(obj, SymbolKeys[i]))), ticker_u)

\* the first key of `keys` that is in obj, whatever it holds; "" when none is
RECURSIVE FirstNumericKey_Present(_, _, _)
FirstNumericKey_Present(obj, keys, i) ==
    IF i > Len(keys) THEN ""
    ELSE IF DictHas(obj, keys[i]) THEN keys[i]
    ELSE FirstNumericKey_Present(obj, keys, i + 1)

\* the first key of `keys`, from index i, that is in obj with a numeric value;
\* "" when there is none
RECURSIVE FirstNumericKey(_, _, _)
FirstNumericKey(obj, keys, i) ==
    IF i > Len(keys) THEN ""
    ELSE IF DictHas(obj, keys[i]) /\ IsNumber(DictAt(obj, keys[i])) THEN keys[i]
    ELSE FirstNumericKey(obj, keys, i + 1)

\* the first maturity key that is in obj with a value whose text parses as a date
RECURSIVE FirstDateKey(_, _, _)
FirstDateKey(obj, keys, i) ==
    IF i > Len(keys) THEN ""
    ELSE IF DictHas(obj, keys[i]) /\ _parse_date_any(PyStr(DictAt(obj, keys[i]))) # None
         THEN keys[i]
    ELSE FirstDateKey(obj, keys, i + 1)

\* f"{name}.{k}"
SourceTag(name, k) == [feed |-> name, field |-> k]

\* dict.setdefault(key, value), and a plain assignment in its place
SetDefault_Overwrite(snap, key, value) == [snap EXCEPT ![key] = value]

SetDefault(snap, key, value) ==
    IF snap[key] = None THEN [snap EXCEPT ![key] = value] ELSE snap

\* both setdefault calls of one attribute: the value, then its source
SetBoth(snap, key, value, srcKey, name, k) ==
    SetDefault(SetDefault(snap, key, value), srcKey, SourceTag(name, k))

\* the body of the loop over _walk(data) for one obj. The four extractions share
\* one try: when float() raises (r1, r2, r3), the except goes to the next obj
\* with what was set before it kept.
ScanNode(snap, name, obj, ticker_u) ==
    IF ~Qualifies(obj, ticker_u) THEN snap
    ELSE LET pk == FirstNumericKey(obj, PriceKeys, 1)
             yk == FirstNumericKey(obj, YieldKeys, 1)
             fk == FirstNumericKey(obj, FaceKeys, 1)
             mk == FirstDateKey(obj, MaturityKeys, 1)
             pv == IF pk = "" THEN None ELSE float(DictAt(obj, pk))
             yv == IF yk = "" THEN None ELSE float(DictAt(obj, yk))
             fv == IF fk = "" THEN None ELSE float(DictAt(obj, fk))
             r1 == pv = Raised
             r2 == r1 \/ yv = Raised
             r3 == r2 \/ fv = Raised
             s1 == IF pk = "" \/ r1 THEN snap
                   ELSE SetBoth(snap, "price_per_100", pv, "price_source", name, pk)
             s2 == IF yk = "" \/ r2 THEN s1
                   ELSE SetBoth(s1, "tirea_decimal", _normalize_yield(yv),
                                "tirea_source", name, yk)
             s3 == IF fk = "" \/ r3 THEN s2
                   ELSE SetBoth(s2, "face_value", fv, "face_source", name, fk)
         IN  IF mk = "" \/ r3 THEN s3
             ELSE SetBoth(s3, "maturity_date", _parse_date_any(PyStr(DictAt(obj, mk))),
                          "maturity_source", name, mk)

\* the test after a feed's loop: price, yield and maturity are all in snapshot
StopScan_WithFace(snap) ==
    /\ snap["price_per_100"] # None
    /\ snap["tirea_decimal"] # None
    /\ snap["maturity_date"] # None
    /\ snap["face_value"] # None

StopScan(snap) ==
    /\ snap["price_per_100"] # None
    /\ snap["tirea_decimal"] # None
    /\ snap["maturity_date"] # None

\* snapshot = {"ticker": ticker_u}; a key not in the dict holds None here
NewSnapshot(ticker) ==
    [ticker |-> Str(Upper(ticker)), price_per_100 |-> None, price_source |-> None,
     tirea_decimal |-> None, tirea_source |-> None, face_value |-> None,
     face_source |-> None, maturity_date |-> None, maturity_source |-> None]

\* inputs of the snapshot specification: tickers and the feeds' answers
K_TTM26 == <<"T", "T", "M", "2", "6">>

K_AL30 == <<"A", "L", "3", "0">>

Tickers == { <<"t", "t", "m", "2", "6">>, K_AL30 }

N_price == Dict(<<"symbol", "last">>, <<Str(K_TTM26), Num(95500000)>>)

N_full ==
    Dict(<<"ticker", "price", "ytm", "maturity", "vn">>,
         <<Str(K_TTM26 \o <<"D">>), PyInt(96), Num(31500000),
           Str(isoformat(Date(2026, 3, 16))), PyInt(100)>>)

N_yield_mat ==
    Dict(<<"symbol", "tirea", "vto">>,
         <<Str(<<"t", "t", "m", "2", "6">>), Num(300000),
           Str(<<"1", "6", "/", "0", "3", "/", "2", "0", "2", "6">>)>>)

N_other ==
    Dict(<<"symbol", "last", "ytm", "maturity">>,
         <<Str(K_AL30), Num(70 * Unit), Num(120000), Str(isoformat(Date(2030, 7, 9)))>>)

N_text_price ==
    Dict(<<"code", "name", "last", "close", "due", "vencimiento", "yield">>,
         <<PyInt(26), Str(<<"B", "o", "n", "o", " ">> \o K_TTM26),
           Str(<<"9", "5", ".", "5">>), Num(94 * Unit), Str(<<"s", "o", "o", "n">>),
           Str(<<"2", "0", "2", "6", "/", "3", "/", "1", "7">>), None>>)

N_huge_price ==
    Dict(<<"symbol", "last", "ytm", "vto">>,
         <<Str(K_TTM26), HugeInt, Num(300000),
           Str(<<"1", "6", "/", "0", "3", "/", "2", "0", "2", "6">>)>>)

N_huge_yield ==
    Dict(<<"symbol", "last", "ytm", "vto">>,
         <<Str(K_TTM26), Num(95500000), HugeInt,
           Str(<<"1", "6", "/", "0", "3", "/", "2", "0", "2", "6">>)>>)

N_nested ==
    Dict(<<"symbol", "px", "par", "legs">>,
         <<Str(K_TTM26), PyInt(90), PyBool(TRUE), List(<<N_full, N_other>>)>>)

FeedBodies ==
    { List(<<N_price>>),
      List(<<N_full, N_other>>),
      Dict(<<"data">>, <<List(<<N_other, N_yield_mat>>)>>),
      List(<<N_yield_mat, N_price>>),
      List(<<N_text_price, N_price>>),
      List(<<N_huge_price, N_huge_yield>>),
      N_nested,
      PyInt(5) }

FeedNets == {NetFail} \cup { NetOk(b) : b \in FeedBodies }

SnapshotInit ==
    /\ holidays = "AR"
    /\ CalendarIdle
    /\ FunctionsIdle
    /\ ProspectusIdle
    /\ MarketIdle
    /\ s_pc = "fetch"
    /\ s_ticker \in Tickers
    /\ s_feed = 1
    /\ s_nodes = <<>>
    /\ s_pos = 0
    /\ snapshot = NewSnapshot(s_ticker)
    /\ s_fetched = <<>>
    /\ s_log = <<>>

\* the position after feed number s_feed: the next feed, or the return
AfterFeed(stop) ==
    IF stop \/ s_feed = Len(DATA912_ENDPOINTS)
    THEN s_pc' = "done" /\ s_feed' = s_feed
    ELSE s_pc' = "fetch" /\ s_feed' = s_feed + 1

\* data = http_get_json(url); if data is None: continue
SnapshotFetch ==
    /\ s_pc = "fetch"
    /\ \E net \in FeedNets :
        LET data == http_get_json("bond_tem", net) IN
        /\ s_fetched' = Append(s_fetched, [name |-> DATA912_ENDPOINTS[s_feed], data |-> data])
        /\ IF data = None
           THEN /\ AfterFeed(FALSE)
                /\ UNCHANGED <<s_nodes, s_pos>>
           ELSE /\ s_pc' = "scan"
                /\ s_feed' = s_feed
                /\ s_nodes' = _walk(data)
                /\ s_pos' = 1
    /\ UNCHANGED <<holidays, fnVars, calVars, prospectusVars, marketVars, s_ticker, snapshot, s_log>>

\* one turn of the loop over _walk(data)
SnapshotScanNode ==
    /\ s_pc = "scan"
    /\ s_pos <= Len(s_nodes)
    /\ snapshot' = ScanNode(snapshot, DATA912_ENDPOINTS[s_feed], s_nodes[s_pos],
                            Upper(s_ticker))
    /\ s_log' = Append(s_log, [name |-> DATA912_ENDPOINTS[s_feed], obj |-> s_nodes[s_pos]])
    /\ s_pos' = s_pos + 1
    /\ UNCHANGED <<holidays, fnVars, calVars, prospectusVars, marketVars, s_pc, s_ticker, s_feed, s_nodes,
                   s_fetched>>

\* the loop over the feed's dicts is over: break when the three are set
SnapshotEndFeed ==
    /\ s_pc = "scan"
    /\ s_pos > Len(s_nodes)
    /\ AfterFeed(StopScan(snapshot))
    /\ UNCHANGED <<holidays, fnVars, calVars, prospectusVars, marketVars, s_ticker, s_nodes, s_pos, snapshot,
                   s_fetched, s_log>>

SnapshotNext == SnapshotFetch \/ SnapshotScanNode \/ SnapshotEndFeed

SpecSnapshot == SnapshotInit /\ [][SnapshotNext]_vars

-----------------------------------------------------------------------------
(* Claims about the snapshot scan *)

\* the positions of `keys` at which obj holds a number
NumericAt(obj, keys) ==
    { i \in 1 .. Len(keys) : DictHas(obj, keys[i]) /\ IsNumber(DictAt(obj, keys[i])) }

\* the positions of `keys` at which obj holds text that parses as a date
DateAt(obj, keys) ==
    { i \in 1 .. Len(keys) :
        DictHas(obj, keys[i]) /\ _parse_date_any(PyStr(DictAt(obj, keys[i]))) # None }

Least(S) == CHOOSE i \in S : \A j \in S : i <= j

\* the first number that obj holds under `keys` is one that float() rejects
Overflows(obj, keys) ==
    /\ NumericAt(obj, keys) # {}
    /\ float(DictAt(obj, keys[Least(NumericAt(obj, keys))])) = Raised

\* the lists of the numeric attributes extracted up to the attribute of `keys`
ListsUpTo(keys) ==
    IF keys = PriceKeys THEN {PriceKeys}
    ELSE IF keys = YieldKeys THEN {PriceKeys, YieldKeys}
    ELSE {PriceKeys, YieldKeys, FaceKeys}

\* the visited nodes, by position in s_log, that hold the ticker, satisfy Hits
\* and whose extraction of the attribute is reached and raises nothing
Suppliers(Hits(_, _), keys) ==
    { i \in 1 .. Len(s_log) :
        /\ Qualifies(s_log[i].obj, Upper(s_ticker))
        /\ Hits(s_log[i].obj, keys) # {}
        /\ \A list \in ListsUpTo(keys) : ~Overflows(s_log[i].obj, list) }

\* snapshot[key] and snapshot[srcKey] are those of the first visited node that
\* supplies the attribute, and are absent when no visited node supplies it
FirstWins(key, srcKey, keys, Hits(_, _), Conv(_)) ==
    LET sup == Suppliers(Hits, keys) IN
    IF sup = {}
    THEN snapshot[key] = None /\ snapshot[srcKey] = None
    ELSE LET e == s_log[Least(sup)]
             k == keys[Least(Hits(e.obj, keys))]
         IN  /\ snapshot[key] = Conv(DictAt(e.obj, k))
             /\ snapshot[srcKey] = SourceTag(e.name, k)

PriceOf(v) == float(v)

YieldOf(v) == _normalize_yield(float(v))

MaturityOf(v) == _parse_date_any(PyStr(v))

\* C6: at every point of a scan, each of price, yield, face value and maturity
\* holds the value of the first visited node (feed order, then visit order)
\* that supplied it, tagged with that node's feed and field, and is absent when
\* no visited node supplied it; so a later match never changes it.
C6_FirstSupplierWins ==
    /\ FirstWins("price_per_100", "price_source", PriceKeys, NumericAt, PriceOf)
    /\ FirstWins("tirea_decimal", "tirea_source", YieldKeys, NumericAt, YieldOf)
    /\ FirstWins("face_value", "face_source", FaceKeys, NumericAt, PriceOf)
    /\ FirstWins("maturity_date", "maturity_source", MaturityKeys, DateAt, MaturityOf)

\* C6 witness: the scan is over, the price came from arg_bonds, the yield and
\* the maturity from arg_notes, and a node of arg_notes offered a price too.
C6_Witness ==
    /\ s_pc = "done"
    /\ snapshot["price_source"] # None
    /\ snapshot["price_source"].feed = "arg_bonds"
    /\ snapshot["tirea_source"] # None
    /\ snapshot["tirea_source"].feed = "arg_notes"
    /\ snapshot["maturity_source"] # None
    /\ snapshot["maturity_source"].feed = "arg_notes"
    /\ \E i \in Suppliers(NumericAt, PriceKeys) :
        /\ s_log[i].name = "arg_notes"
        /\ PriceOf(DictAt(s_log[i].obj, PriceKeys[Least(NumericAt(s_log[i].obj, PriceKeys))]))
               # snapshot["price_per_100"]

\* the visits of one fetched feed, in order
VisitsOf(f) ==
    IF f.data = None THEN <<>>
    ELSE LET w == _walk(f.data) IN [i \in 1 .. Len(w) |-> [name |-> f.name, obj |-> w[i]]]

\* the attribute is supplied by a node of the named feed
SuppliedBy(name, Hits(_, _), keys) ==
    \E i \in Suppliers(Hits, keys) : s_log[i].name = name

\* price, yield and maturity are all supplied by the nodes of the first feed
FirstFeedSuffices ==
    /\ SuppliedBy(DATA912_ENDPOINTS[1], NumericAt, PriceKeys)
    /\ SuppliedBy(DATA912_ENDPOINTS[1], NumericAt, YieldKeys)
    /\ SuppliedBy(DATA912_ENDPOINTS[1], DateAt, MaturityKeys)

\* C7: the feeds are fetched in the order arg_bonds, arg_notes; every fetched
\* feed is visited to its end before the next fetch or the return; and
\* arg_notes is fetched if and only if, after arg_bonds was visited to its end
\* or its fetch failed, one of price, yield, maturity is still absent (the
\* face value plays no part).
C7_FeedOrderAndStop ==
    /\ Len(s_fetched) <= Len(DATA912_ENDPOINTS)
    /\ \A i \in 1 .. Len(s_fetched) : s_fetched[i].name = DATA912_ENDPOINTS[i]
    /\ s_pc \in {"fetch", "done"} =>
          s_log = (IF Len(s_fetched) >= 1 THEN VisitsOf(s_fetched[1]) ELSE <<>>)
                  \o (IF Len(s_fetched) >= 2 THEN VisitsOf(s_fetched[2]) ELSE <<>>)
    /\ (s_pc = "fetch" /\ s_feed = 2) => ~FirstFeedSuffices
    /\ s_pc = "done" => (Len(s_fetched) = 2 <=> ~FirstFeedSuffices)

\* C7 witness: the scan returned after arg_bonds alone, which supplied price,
\* yield and maturity but no face value.
C7_Witness ==
    /\ s_pc = "done"
    /\ Len(s_fetched) = 1
    /\ Len(s_log) > 1
    /\ snapshot["price_per_100"] # None
    /\ snapshot["face_value"] = None

\* the positions of `keys` that are in obj, whatever they hold
PresentAt(obj, keys) == { i \in 1 .. Len(keys) : DictHas(obj, keys[i]) }

\* the four attributes: the snapshot's keys, the priority list, what counts as
\* a usable field
Attributes ==
    { [key |-> "price_per_100", src |-> "price_source", keys |-> PriceKeys, date |-> FALSE],
      [key |-> "tirea_decimal", src |-> "tirea_source", keys |-> YieldKeys, date |-> FALSE],
      [key |-> "face_value", src |-> "face_source", keys |-> FaceKeys, date |-> FALSE],
      [key |-> "maturity_date", src |-> "maturity_source", keys |-> MaturityKeys,
       date |-> TRUE] }

UsableAt(a, obj) == IF a.date THEN DateAt(obj, a.keys) ELSE NumericAt(obj, a.keys)

\* the step visits a dict that holds the ticker
VisitsQualifying ==
    /\ s_pc = "scan"
    /\ s_pos <= Len(s_nodes)
    /\ s_pos' = s_pos + 1
    /\ Qualifies(s_nodes[s_pos], Upper(s_ticker))

\* C18 as stated: in the step that visits a qualifying node, each attribute
\* not yet set is taken from the first field of its priority list that is
\* present in the node, and stays unset only when none is present, whatever
\* becomes of the other three attributes.
C18_FirstPresentFieldIsTaken ==
    [][VisitsQualifying =>
        \A a \in Attributes :
            LET obj == s_nodes[s_pos]
                at == PresentAt(obj, a.keys)
            IN  IF snapshot[a.key] # None THEN snapshot'[a.key] = snapshot[a.key]
                ELSE IF at = {} THEN snapshot'[a.key] = None
                ELSE /\ snapshot'[a.key] # None
                     /\ snapshot'[a.src] = SourceTag(DATA912_ENDPOINTS[s_feed],
                                                     a.keys[Least(at)])]_vars

\* C18 amended: each attribute not yet set is taken from the first field of
\* its list that is present and usable (a number; for the maturity, text that
\* parses as a date), so a later field is consulted when an earlier one is
\* present but unusable. An attribute with no usable field leaves the others
\* alone; but the four share one try, so a number that float() rejects ends the
\* node's extraction there: that attribute and the later ones stay unset.
C18_FirstUsableFieldIsTaken ==
    [][VisitsQualifying =>
        \A a \in Attributes :
            LET obj == s_nodes[s_pos]
                at == UsableAt(a, obj)
                cut == \E list \in ListsUpTo(a.keys) : Overflows(obj, list)
            IN  IF snapshot[a.key] # None THEN snapshot'[a.key] = snapshot[a.key]
                ELSE IF at = {} \/ cut THEN snapshot'[a.key] = None
                ELSE /\ snapshot'[a.key] # None
                     /\ snapshot'[a.src] = SourceTag(DATA912_ENDPOINTS[s_feed],
                                                     a.keys[Least(at)])]_vars

\* a node whose first price field holds text and whose first maturity field
\* holds no date was visited: the price came from "close", the maturity from
\* "vencimiento", and no yield was found
C18_Witness ==
    /\ Len(s_log) = 1
    /\ s_log[1].obj = N_text_price
    /\ snapshot["price_source"] = SourceTag("arg_bonds", "close")
    /\ snapshot["maturity_source"] = SourceTag("arg_bonds", "vencimiento")
    /\ snapshot["tirea_decimal"] = None

\* a node whose yield is beyond the float range was visited: its price was
\* taken, its maturity was not
C18_WitnessCut ==
    /\ Len(s_log) = 2
    /\ s_log[2].obj = N_huge_yield
    /\ snapshot["price_source"] = SourceTag("arg_bonds", "last")
    /\ snapshot["maturity_date"] = None

-----------------------------------------------------------------------------
(* MarketTEMEngine: compute_market_tem (bond_tem.py and ttm26_tem.py) *)

\* the day count with the days of the month as they are, no cap at 30
days_30e_360_Uncapped(start_date, end_date) ==
    (end_date.year - start_date.year) * 360
        + (end_date.month - start_date.month) * 30
        + (end_date.day - start_date.day)

days_30e_360(start_date, end_date) ==
    LET d1 == IF start_date.day < 30 THEN start_date.day ELSE 30
        d2 == IF end_date.day < 30 THEN end_date.day ELSE 30
    IN  (end_date.year - start_date.year) * 360
            + (end_date.month - start_date.month) * 30
            + (d2 - d1)

\* days_30e_360 / 360.0, kept as the count of 360ths of a year
year_fraction_30e_360(start_date, end_date) == days_30e_360(start_date, end_date)

\* (1 + x) ** (1/12) - 1 at x = first component, in millionths
TireaTemTable ==
    { <<-999900, -535841>>, <<0, 0>>, <<26931, 2217>>, <<30428, 2501>>, <<41103, 3362>>,
      <<53108, 4321>>, <<59885, 4858>>, <<60102, 4876>>, <<72399, 5842>>,
      <<78695, 6333>>, <<81294, 6534>>, <<89199, 7146>>, <<90762, 7266>>,
      <<120000, 9489>>, <<121672, 9614>>, <<261364, 19538>>, <<289300, 21401>>,
      <<293100, 21651>>, <<296500, 21875>>, <<300000, 22104>>, <<305500, 22464>>,
      <<315000, 23082>>, <<570260, 38319>>, <<683946, 44385>>, <<752154, 47847>>,
      <<911183, 55460>>, <<938416, 56705>>, <<3477077, 133051>>, <<3597650, 135563>>,
      <<3613306, 135885>>, <<3661098, 136861>>, <<4647223, 155189>>, <<17329807, 274275>>,
      <<17518493, 275363>>, <<18427494, 280466>>, <<18501981, 280874>>, <<18631499, 281581>>,
      <<18819909, 282602>>, <<70724925, 427707>>, <<76369332, 436748>>, <<77122701, 437909>>,
      <<79451833, 441434>>, <<138032726, 508666>> }

\* a negative float to a fractional power is a complex number
tirea_to_tem_monthly(tirea_decimal) ==
    IF tirea_decimal.n < -Unit THEN Complex
    ELSE Num(Lookup(TireaTemTable, tirea_decimal.n))

\* (face / price) ** (1 / t_years) - 1 as <<face, price, 360 * t_years, value>>,
\* face, price and value in millionths
BulletTable ==
    { <<100000000, 70000000, 194, 938416>>, <<100000000, 70000000, 553, 261364>>,
      <<100000000, 70000000, 1478, 90762>>, <<100000000, 70000000, 1837, 72399>>,
      <<100000000, 94000000, 194, 121672>>, <<100000000, 94000000, 285, 81294>>,
      <<100000000, 94000000, 553, 41103>>, <<100000000, 95500000, 194, 89199>>,
      <<100000000, 95500000, 284, 60102>>, <<100000000, 95500000, 285, 59885>>,
      <<100000000, 95500000, 553, 30428>>, <<100000000, 96000000, 194, 78695>>,
      <<100000000, 96000000, 284, 53108>>, <<100000000, 96000000, 553, 26931>>,
      <<100000000, 100000000, 194, 0>>, <<100000000, 100000000, 284, 0>>,
      <<100000000, 100000000, 285, 0>>, <<100000000, 100000000, 553, 0>>,
      <<100000000, 100000000, 1478, 0>>, <<100000000, 100000000, 1837, 0>>,
      <<1000000000, 70000000, 194, 138032726>>, <<1000000000, 70000000, 553, 4647223>>,
      <<1000000000, 70000000, 1478, 911183>>, <<1000000000, 70000000, 1837, 683946>>,
      <<1000000000, 94000000, 194, 79451833>>, <<1000000000, 94000000, 285, 18819909>>,
      <<1000000000, 94000000, 553, 3661098>>, <<1000000000, 95500000, 194, 77122701>>,
      <<1000000000, 95500000, 284, 18631499>>, <<1000000000, 95500000, 285, 18427494>>,
      <<1000000000, 95500000, 553, 3613306>>, <<1000000000, 96000000, 194, 76369332>>,
      <<1000000000, 96000000, 284, 18501981>>, <<1000000000, 96000000, 553, 3597650>>,
      <<1000000000, 100000000, 194, 70724925>>, <<1000000000, 100000000, 284, 17518493>>,
      <<1000000000, 100000000, 285, 17329807>>, <<1000000000, 100000000, 553, 3477077>>,
      <<1000000000, 100000000, 1478, 752154>>, <<1000000000, 100000000, 1837, 570260>> }

\* a negative base to the power 1 / t_years is a complex number (360 / t_years
\* is no whole number for the day counts met here), and 0.0 to it is 0.0
BulletYield(face_value, price_per_100, t_years) ==
    IF face_value.n < 0 THEN Complex
    ELSE IF face_value.n = 0 THEN Num(-Unit)
    ELSE Num((CHOOSE r \in BulletTable :
                 r[1] = face_value.n /\ r[2] = price_per_100.n /\ r[3] = t_years)[4])

\* a or b
PyOr(a, b) == IF Truthy(a) THEN a ELSE b

\* round(x, 2), x in millionths
PyRound2(x) ==
    LET q == (Abs(x.n) + 5000) \div 10000
    IN  Num((IF x.n < 0 THEN -1 ELSE 1) * q * 10000)

\* f"{percent:.2f}%"
PercentStr(percent) ==
    Str((IF percent.n < 0 THEN <<"-">> ELSE <<>>)
        \o NatText(Abs(percent.n) \div Unit, 1) \o <<".">>
        \o NatText((Abs(percent.n) % Unit) \div 10000, 2) \o <<"%">>)

\* the results dict; a key that is not in the dict holds None here
NoMarket ==
    [error |-> None, settlement_date |-> None, maturity_date |-> None, face_value |-> None,
     tirea_decimal |-> None, tem_from_tirea |-> None, tirea_from_price_bullet |-> None,
     tem_from_price_bullet |-> None, price_per_100 |-> None, tem_from_tamar_latest |-> None,
     tem_market |-> None, tem_market_percentage |-> None, tem_market_percentage_str |-> None,
     price_source |-> None, tirea_source |-> None]

\* the percentage fields that go with tem_market
WithPercentage(results) ==
    IF results.tem_market # None
    THEN LET percent == PyRound2(Num(results.tem_market.n * 100)) IN
         [results EXCEPT !.tem_market_percentage = percent,
                         !.tem_market_percentage_str = PercentStr(percent)]
    ELSE [results EXCEPT !.tem_market_percentage = None,
                         !.tem_market_percentage_str = None]

\* the first lines of compute_market_tem with no bullet yield at all
MarketFields_NoBullet(maturity_date, settlement_date, face_value, price_per_100, tirea_decimal, now) ==
    LET settlement == IF settlement_date # None THEN settlement_date ELSE now
        r0 == [NoMarket EXCEPT !.settlement_date = Str(isoformat(settlement)),
                               !.maturity_date = Str(isoformat(maturity_date)),
                               !.face_value = face_value]
    IN  IF tirea_decimal # None
        THEN [r0 EXCEPT !.tirea_decimal = tirea_decimal,
                        !.tem_from_tirea = tirea_to_tem_monthly(tirea_decimal)]
        ELSE r0

\* the first lines of compute_market_tem, the same in both files: the dates,
\* the face value, the TEM of the yield and the TEM of the bullet yield;
\* Raised when max() meets a complex bullet yield
MarketFields(maturity_date, settlement_date, face_value, price_per_100, tirea_decimal, now) ==
    LET settlement == IF settlement_date # None THEN settlement_date ELSE now
        r0 == [NoMarket EXCEPT !.settlement_date = Str(isoformat(settlement)),
                               !.maturity_date = Str(isoformat(maturity_date)),
                               !.face_value = face_value]
        r1 == IF tirea_decimal # None
              THEN [r0 EXCEPT !.tirea_decimal = tirea_decimal,
                              !.tem_from_tirea = tirea_to_tem_monthly(tirea_decimal)]
              ELSE r0
        t_years == year_fraction_30e_360(settlement, maturity_date)
    IN  IF price_per_100 # None /\ price_per_100.n > 0 /\ t_years > 0
        THEN LET tirea_bullet == BulletYield(face_value, price_per_100, t_years)
                 floored == PyMax(Num(-999900), tirea_bullet)
             IN  IF floored = Raised THEN Raised
                 ELSE [r1 EXCEPT !.tirea_from_price_bullet = tirea_bullet,
                                 !.tem_from_price_bullet = tirea_to_tem_monthly(floored),
                                 !.price_per_100 = price_per_100]
        ELSE r1

\* compute_market_tem of the file `impl`; ttm26_tem.py takes no
\* tamar_latest_decimal and sets no percentage field
compute_market_tem(impl, maturity_date, settlement_date, face_value, price_per_100, tirea_decimal, tamar_latest_decimal, now) ==
    LET results == MarketFields(maturity_date, settlement_date, face_value, price_per_100,
                                tirea_decimal, now)
    IN  IF results = Raised THEN Raised
        ELSE IF impl = "ttm26_tem"
        THEN [results EXCEPT !.tem_market =
                 IF results.tem_from_tirea # None THEN results.tem_from_tirea
                 ELSE results.tem_from_price_bullet]
        ELSE LET preferred == PyOr(results.tem_from_tirea, results.tem_from_price_bullet)
                 fallback == preferred = None /\ tamar_latest_decimal # None
                 r3 == IF fallback
                       THEN [results EXCEPT !.tem_from_tamar_latest =
                                                tamar_to_tem_monthly(tamar_latest_decimal)]
                       ELSE results
                 chosen == IF fallback THEN r3.tem_from_tamar_latest ELSE preferred
             IN  IF chosen = Complex THEN Raised
                 ELSE WithPercentage([r3 EXCEPT !.tem_market = chosen])

-----------------------------------------------------------------------------
(* main of both files, up to the market block *)

\* fetch_tamar_latest_decimal: the first item of the listing with this id and
\* a usable valor, as a decimal
RECURSIVE LatestFrom(_, _, _)
LatestFrom(items, i, id_variable) ==
    IF i > Len(items) THEN None
    ELSE LET item == items[i]
             idv == IF item.t = "dict" THEN int(DictGet(item, "idVariable")) ELSE Raised
             v == IF item.t = "dict" THEN float(DictGet(item, "valor")) ELSE Raised
         IN  IF idv # Raised /\ idv = int(id_variable) /\ v # Raised
             THEN Num(v.n \div 100)
             ELSE LatestFrom(items, i + 1, id_variable)

fetch_tamar_latest_decimal(id_variable, net) ==
    LET data == http_get_json("bond_tem", net) IN
    IF data.t # "dict" THEN None
    ELSE IF ResultsOf(data).t # "list" THEN None
    ELSE LatestFrom(ResultsOf(data).elems, 1, id_variable)

\* fetch_data912_snapshot as one call: nets[k] is what the network does with
\* the request for feed k
RECURSIVE ScanFeed(_, _, _, _, _)
ScanFeed(snap, name, nodes, i, ticker_u) ==
    IF i > Len(nodes) THEN snap
    ELSE ScanFeed(ScanNode(snap, name, nodes[i], ticker_u), name, nodes, i + 1, ticker_u)

RECURSIVE ScanFeeds(_, _, _, _)
ScanFeeds(snap, k, nets, ticker_u) ==
    IF k > Len(DATA912_ENDPOINTS) THEN snap
    ELSE LET data == http_get_json("bond_tem", nets[k]) IN
         IF data = None THEN ScanFeeds(snap, k + 1, nets, ticker_u)
         ELSE LET after == ScanFeed(snap, DATA912_ENDPOINTS[k], _walk(data), 1, ticker_u) IN
              IF StopScan(after) THEN after ELSE ScanFeeds(after, k + 1, nets, ticker_u)

fetch_data912_snapshot(ticker, nets) == ScanFeeds(NewSnapshot(ticker), 1, nets, Upper(ticker))

\* DUAL_BONDS_MAP.get(ticker.upper())
DualMeta(ticker) ==
    LET u == Upper(ticker) IN
    CASE u = <<"T", "T", "M", "2", "6">> -> DUAL_BONDS_MAP.TTM26
      [] u = <<"T", "T", "J", "2", "6">> -> DUAL_BONDS_MAP.TTJ26
      [] u = <<"T", "T", "S", "2", "6">> -> DUAL_BONDS_MAP.TTS26
      [] u = <<"T", "T", "D", "2", "6">> -> DUAL_BONDS_MAP.TTD26
      [] OTHER -> None

\* market = {"error": ...}
MarketError(why) == [NoMarket EXCEPT !.error = [t |-> "error", why |-> why]]

\* the tem_market that --market-source selects, as the spec words it and as
\* main computes it
SelectTem_FieldOnly(market_source, mkt, tamar_latest_dec) ==
    CASE market_source = "ytm" -> mkt.tem_from_tirea
      [] market_source = "price" -> mkt.tem_from_price_bullet
      [] market_source = "tamar" -> mkt.tem_from_tamar_latest
      [] OTHER -> mkt.tem_market

SelectTem(market_source, mkt, tamar_latest_dec) ==
    CASE market_source = "ytm" -> mkt.tem_from_tirea
      [] market_source = "price" -> mkt.tem_from_price_bullet
      [] market_source = "tamar" ->
            IF mkt.tem_from_tamar_latest # None THEN mkt.tem_from_tamar_latest
            ELSE IF tamar_latest_dec # None THEN tamar_to_tem_monthly(tamar_latest_dec)
            ELSE None
      [] OTHER -> mkt.tem_market

\* inputs of the market specification
MarketToday == Date(2025, 6, 2)

\* a date written day first, which dt.date.fromisoformat does not accept
DayFirstText == Str(<<"1", "/", "6", "/", "2", "0", "2", "6">>)

BondArgs ==
    [maturity : {None, Str(isoformat(Date(2026, 12, 15)))},
     settlement : {None, Str(isoformat(Date(2026, 6, 1))), DayFirstText},
     face : {None, Num(1000 * Unit), Num(-100 * Unit)},
     price : {None, Num(100 * Unit)},
     tirea : {None, Num(0), Num(300000)},
     tamar_id : {PyInt(44)},
     market_source : {"ytm", "price", "tamar", "auto"}]

Ttm26Args ==
    [maturity : {Str(isoformat(Date(2026, 3, 16))), Str(isoformat(Date(2026, 12, 15)))},
     settlement : {None, Str(isoformat(Date(2026, 6, 1))), DayFirstText},
     face : {Num(100 * Unit), Num(1000 * Unit)},
     price : {None, Num(100 * Unit), Num(0)},
     tirea : {None, Num(0), Num(300000)},
     fetch_price : {FALSE}]

MarketInputs ==
    { [impl |-> "bond_tem", ticker |-> tk, args |-> a] : tk \in Tickers, a \in BondArgs }
    \cup { [impl |-> "ttm26_tem", ticker |-> K_TTM26, args |-> a] : a \in Ttm26Args }

MarketFeedNets ==
    { NetFail, NetOk(List(<<N_price>>)), NetOk(List(<<N_full, N_other>>)),
      NetOk(List(<<N_text_price, N_price>>)) }

LatestItem(id, valor) == Dict(<<"idVariable", "valor">>, <<id, valor>>)

LatestNets ==
    { NetFail,
      NetOk(Dict(<<"results">>, <<List(<<
          LatestItem(PyInt(7), Num(1500000)), LatestItem(PyInt(44), Num(30 * Unit)) >>)>>)),
      NetOk(Dict(<<"results">>, <<List(<<
          LatestItem(Str(<<"4", "4">>), None), PyInt(44),
          LatestItem(Num(44 * Unit), Str(<<"0">>)) >>)>>)),
      NetOk(Dict(<<"results">>, <<List(<< LatestItem(PyInt(7), Num(1500000)) >>)>>)) }

MarketInit ==
    /\ holidays = "AR"
    /\ CalendarIdle
    /\ FunctionsIdle
    /\ SnapshotIdle
    /\ today = MarketToday
    /\ queries = <<>>
    /\ p_pc = "idle"
    /\ p_in = None
    /\ p_loc = None
    /\ p_result = None
    /\ m_pc = "start"
    /\ m_in \in MarketInputs
    /\ m_loc = None
    /\ market = None

\* bond_tem.main: price, tirea, face, maturity (with the catalog fallbacks)
\* and settlement, from the arguments and the snapshot
ResolveInputs(ticker, args, snap, now) ==
    LET price == IF args.price # None THEN args.price ELSE snap.price_per_100
        tirea == IF args.tirea # None THEN args.tirea ELSE snap.tirea_decimal
        face == IF args.face # None THEN args.face
                ELSE IF snap.face_value # None THEN snap.face_value ELSE Num(100 * Unit)
        dual_meta == DualMeta(ticker)
        fallback == args.maturity = None /\ snap.maturity_date = None
    IN  [snap |-> snap,
         price |-> price,
         tirea |-> IF fallback /\ tirea = None /\ dual_meta # None
                   THEN float(dual_meta.tirea_decimal) ELSE tirea,
         face |-> face,
         maturity |-> IF args.maturity # None THEN fromisoformat(args.maturity.s)
                      ELSE IF fallback /\ dual_meta # None THEN dual_meta.maturity
                      ELSE snap.maturity_date,
         maturity_source |-> IF args.maturity # None THEN "override"
                             ELSE IF fallback /\ dual_meta # None THEN "known_dual_map"
                             ELSE IF fallback THEN "unavailable"
                             ELSE snap.maturity_source,
         settlement |-> IF args.settlement # None THEN fromisoformat(args.settlement.s)
                        ELSE now,
         tamar_latest_dec |-> None]

\* bond_tem.main: the latest reference rate, when there is a --tamar-id
FetchLatest(args, net) ==
    IF args.tamar_id # None THEN fetch_tamar_latest_decimal(args.tamar_id, net) ELSE None

\* bond_tem.main: the call of compute_market_tem and the two source tags
ComputeMarket(args, loc, now) ==
    LET r == compute_market_tem("bond_tem", loc.maturity, loc.settlement, loc.face,
                                loc.price, loc.tirea, loc.tamar_latest_dec, now)
    IN  IF r = Raised THEN MarketError("exception")
        ELSE [r EXCEPT !.price_source =
                           IF args.price = None /\ loc.snap.price_per_100 # None
                           THEN loc.snap.price_source ELSE None,
                       !.tirea_source =
                           IF args.tirea = None /\ loc.snap.tirea_decimal # None
                           THEN loc.snap.tirea_source ELSE None]

\* --market-source with the percentage fields left as the engine set them
ApplyPreference_KeepPercentage(args, loc, mkt) ==
    LET tm == SelectTem(args.market_source, mkt, loc.tamar_latest_dec) IN
    IF tm = Complex THEN MarketError("exception")
    ELSE [mkt EXCEPT !.tem_market = tm]

\* bond_tem.main: --market-source, then the percentage fields again
ApplyPreference(args, loc, mkt) ==
    LET tm == SelectTem(args.market_source, mkt, loc.tamar_latest_dec) IN
    IF tm = Complex THEN MarketError("exception")
    ELSE WithPercentage([mkt EXCEPT !.tem_market = tm])

\* ttm26_tem.main: maturity, settlement, price and tirea from the arguments
\* (no --fetch-price)
Ttm26Inputs(args) ==
    [snap |-> None, price |-> args.price, tirea |-> args.tirea, face |-> args.face,
     maturity |-> fromisoformat(args.maturity.s), maturity_source |-> "override",
     settlement |-> IF args.settlement # None THEN fromisoformat(args.settlement.s)
                    ELSE None,
     tamar_latest_dec |-> None]

\* snap = fetch_data912_snapshot(args.ticker)
MainSnapshot ==
    /\ m_pc = "start"
    /\ m_in.impl = "bond_tem"
    /\ \E n1 \in MarketFeedNets, n2 \in MarketFeedNets :
        m_loc' = [snap |-> fetch_data912_snapshot(m_in.ticker, <<n1, n2>>)]
    /\ m_pc' = "snapshot"
    /\ UNCHANGED <<holidays, fnVars, calVars, prospectusVars, snapshotVars, m_in, market>>

\* parse_date is called outside every try: its ValueError ends the run
MainResolve ==
    /\ m_pc = "snapshot"
    /\ m_loc' = ResolveInputs(m_in.ticker, m_in.args, m_loc.snap, today)
    /\ m_pc' = IF m_loc'.maturity = Raised \/ m_loc'.settlement = Raised
               THEN "aborted" ELSE "resolved"
    /\ UNCHANGED <<holidays, fnVars, calVars, prospectusVars, snapshotVars, m_in, market>>

\* no maturity, no market TEM
MainNoMaturity ==
    /\ m_pc = "resolved"
    /\ m_loc.maturity = None
    /\ market' = MarketError("maturity")
    /\ m_pc' = "done"
    /\ UNCHANGED <<holidays, fnVars, calVars, prospectusVars, snapshotVars, m_in, m_loc>>

MainFetchLatest ==
    /\ m_pc = "resolved"
    /\ m_loc.maturity # None
    /\ \E net \in LatestNets :
        m_loc' = [m_loc EXCEPT !.tamar_latest_dec = FetchLatest(m_in.args, net)]
    /\ m_pc' = "latest"
    /\ UNCHANGED <<holidays, fnVars, calVars, prospectusVars, snapshotVars, m_in, market>>

MainComputeMarket ==
    /\ m_pc = "latest"
    /\ market' = ComputeMarket(m_in.args, m_loc, today)
    /\ m_pc' = IF market'.error # None THEN "done" ELSE "computed"
    /\ UNCHANGED <<holidays, fnVars, calVars, prospectusVars, snapshotVars, m_in, m_loc>>

MainPreference ==
    /\ m_pc = "computed"
    /\ market' = ApplyPreference(m_in.args, m_loc, market)
    /\ m_pc' = "done"
    /\ UNCHANGED <<holidays, fnVars, calVars, prospectusVars, snapshotVars, m_in, m_loc>>

Ttm26Market ==
    /\ m_pc = "start"
    /\ m_in.impl = "ttm26_tem"
    /\ m_loc' = Ttm26Inputs(m_in.args)
    /\ IF m_loc'.maturity = Raised \/ m_loc'.settlement = Raised
       THEN /\ market' = market
            /\ m_pc' = "aborted"
       ELSE /\ market' = LET r == compute_market_tem("ttm26_tem", m_loc'.maturity,
                                                     m_loc'.settlement, m_loc'.face,
                                                     m_loc'.price, m_loc'.tirea, None, today)
                          IN  IF r = Raised THEN MarketError("exception") ELSE r
            /\ m_pc' = "done"
    /\ UNCHANGED <<holidays, fnVars, calVars, prospectusVars, snapshotVars, m_in>>

MarketNext ==
    \/ MainSnapshot
    \/ MainResolve
    \/ MainNoMaturity
    \/ MainFetchLatest
    \/ MainComputeMarket
    \/ MainPreference
    \/ Ttm26Market

SpecMarket == MarketInit /\ [][MarketNext]_vars

-----------------------------------------------------------------------------
(* Claims about the market TEM *)

\* main of bond_tem.py has resolved its inputs for a ticker of the catalog
ResolvedForDual ==
    /\ m_in # None
    /\ m_in.impl = "bond_tem"
    /\ m_pc \notin {"start", "snapshot"}
    /\ DualMeta(m_in.ticker) # None

\* C3: for a ticker of the catalog, when neither --tirea nor the snapshot gives
\* a yield, the yield passed to the market engine is the catalog's; when
\* neither --maturity nor the snapshot gives a maturity, the maturity is the
\* catalog's; each whether or not the other attribute was found live.
C3_CatalogFallbacksAreIndependent ==
    ResolvedForDual =>
        /\ (m_in.args.tirea = None /\ m_loc.snap.tirea_decimal = None) =>
               m_loc.tirea = DualMeta(m_in.ticker).tirea_decimal
        /\ (m_in.args.maturity = None /\ m_loc.snap.maturity_date = None) =>
               m_loc.maturity = DualMeta(m_in.ticker).maturity

\* compute_market_tem has returned a results dict whose tem_market is still
\* the engine's own choice: either file's engine right after the call, and
\* main of bond_tem.py at its end under --market-source auto
EngineChoiceVisible ==
    /\ m_in # None
    /\ market # None
    /\ market.error = None
    /\ \/ m_pc = "computed"
       \/ m_pc = "done" /\ m_in.impl = "ttm26_tem"
       \/ m_pc = "done" /\ m_in.impl = "bond_tem" /\ m_in.args.market_source = "auto"

\* C4: the engine's tem_market is the TEM of the yield whenever a yield is
\* passed (a yield whose TEM is 0 included), otherwise the bullet TEM whenever
\* it was computed, otherwise the TEM of the fallback reference rate when one
\* is passed, otherwise null.
C4_AutoPrefersYieldThenBulletThenFallback ==
    EngineChoiceVisible =>
        market.tem_market =
            IF m_loc.tirea # None THEN tirea_to_tem_monthly(m_loc.tirea)
            ELSE IF market.tem_from_price_bullet # None THEN market.tem_from_price_bullet
            ELSE IF m_loc.tamar_latest_dec # None
                 THEN tamar_to_tem_monthly(m_loc.tamar_latest_dec)
            ELSE None

\* main of bond_tem.py is over, with a market TEM block and a --market-source
\* other than auto
PreferenceApplied ==
    /\ m_in # None
    /\ m_in.impl = "bond_tem"
    /\ m_pc = "done"
    /\ market.error = None
    /\ m_in.args.market_source # "auto"

\* C5 as stated: under ytm, price or tamar, tem_market is the field the engine
\* computed for that source, or null when the engine did not compute it;
\* nothing is computed afresh.
C5_PreferenceSelectsComputedFieldOnly ==
    PreferenceApplied =>
        market.tem_market =
            CASE m_in.args.market_source = "ytm" -> market.tem_from_tirea
              [] m_in.args.market_source = "price" -> market.tem_from_price_bullet
              [] m_in.args.market_source = "tamar" -> market.tem_from_tamar_latest

\* C5 amended: under ytm or price, tem_market is the field the engine computed
\* for that source, or null when the engine did not compute it; under tamar it
\* is the TEM of the latest reference rate whenever one was fetched (computed
\* by main when the engine did not), and null only when none was fetched.
C5_PreferenceSelectsFieldOrFreshFallback ==
    PreferenceApplied =>
        market.tem_market =
            CASE m_in.args.market_source = "ytm" -> market.tem_from_tirea
              [] m_in.args.market_source = "price" -> market.tem_from_price_bullet
              [] m_in.args.market_source = "tamar" ->
                    IF m_loc.tamar_latest_dec # None
                    THEN tamar_to_tem_monthly(m_loc.tamar_latest_dec)
                    ELSE None

\* C5 witness: under tamar with a yield present the engine computed no fallback
\* TEM, a latest rate was fetched, and tem_market is not null.
C5_Witness ==
    /\ PreferenceApplied
    /\ m_in.args.market_source = "tamar"
    /\ market.tem_from_tirea # None
    /\ market.tem_from_tamar_latest = None
    /\ m_loc.tamar_latest_dec # None
    /\ market.tem_market # None

-----------------------------------------------------------------------------
(* Exercise of the functions: discovery, average, day count, market engine *)

\* days_30e_360 of ttm26_tem.py
days_30e_360_ttm26(start_date, end_date) ==
    LET d1 == IF start_date.day < 30 THEN start_date.day ELSE 30
        d2 == IF end_date.day < 30 THEN end_date.day ELSE 30
    IN  (end_date.year - start_date.year) * 360
            + (end_date.month - start_date.month) * 30
            + (d2 - d1)

\* the longest listing the discovery is exercised on
MaxItems == 3

D_tamar == <<"T", "A", "M", "A", "R">>

D_Tamar == <<"T", "a", "m", "a", "r">>

D_plazo == <<"t", "a", "m", "a", "r", " ", "p", "l", "a", "z", "o", " ", "f", "i", "j", "o">>

D_monto == <<"t", "a", "m", "a", "r", " ", "1", "0", "0", "0", "0", "0", "0", "0", "0", "0">>

D_privados == <<"T", "A", "M", "A", "R", " ", "p", "r", "o", "m", "e", "d", "i", "o", " ",
                "b", "a", "n", "c", "o", "s", " ", "p", "r", "i", "v", "a", "d", "o", "s">>

D_badlar == <<"B", "A", "D", "L", "A", "R">>

\* entries of a listing: no keyword, the keyword alone (twice, under two ids),
\* the keyword with one more token, and the best description under no usable id
ListingItemSet ==
    { ListingItem(PyInt(7), D_badlar),
      ListingItem(PyInt(44), D_tamar),
      ListingItem(PyInt(45), D_Tamar),
      ListingItem(PyInt(46), D_plazo),
      ListingItem(PyInt(48), D_monto),
      ListingItem(PyInt(47), D_privados),
      ListingItem(None, D_privados) }

DiscoveryNets ==
    { NetFail, NetOk(List(<<>>)), NetOk(Dict(<<"results">>, <<Str(<<"x">>)>>)) }
    \cup { NetOk(Dict(<<"results">>, <<List(items)>>)) :
               items \in SeqsUpTo(ListingItemSet, MaxItems) }

DiscoveryInputs ==
    { [fn |-> "find_tamar_variable_id", impl |-> impl, netListing |-> net] :
        impl \in {"bond_tem", "ttm26_tem"}, net \in DiscoveryNets }

AverageInputs ==
    { [fn |-> "fetch_tamar_series_average", impl |-> impl, id_variable |-> id,
       netListing |-> netListing, netSeries |-> netSeries] :
        impl \in {"bond_tem", "ttm26_tem"}, id \in {None, PyInt(0), PyInt(44)},
        netListing \in ListingNets, netSeries \in SeriesNets }

DayCountDates ==
    { dd \in { Date(y, m, d) : y \in {2024, 2025}, m \in {1, 2, 3, 12},
                               d \in {1, 28, 29, 30, 31} } :
        dd.day <= DaysInMonth(dd.year, dd.month) }

DayCountInputs ==
    { [fn |-> "days_30e_360", start_date |-> a, end_date |-> b] :
        a \in DayCountDates, b \in DayCountDates }

\* (settlement, maturity): settlement defaulted, before, on and after the
\* maturity, and the 30th before a maturity on the 31st
EngineDates ==
    { <<None, Date(2026, 3, 16)>>,
      <<Date(2025, 6, 2), Date(2026, 3, 16)>>,
      <<Date(2026, 3, 16), Date(2026, 3, 16)>>,
      <<Date(2026, 4, 1), Date(2026, 3, 16)>>,
      <<Date(2026, 3, 30), Date(2026, 3, 31)>> }

EngineInputs ==
    { [fn |-> "compute_market_tem", impl |-> impl,
       settlement_date |-> sm[1], maturity_date |-> sm[2],
       face_value |-> face, price_per_100 |-> price,
       tirea_decimal |-> tirea, tamar_latest_decimal |-> latest] :
        impl \in {"bond_tem", "ttm26_tem"}, sm \in EngineDates,
        face \in {Num(100 * Unit), Num(0), Num(-100 * Unit)},
        price \in {None, Num(95500000), Num(0), Num(-5 * Unit)},
        tirea \in {None, Num(300000)},
        latest \in {None, Num(500000)} }

FunctionsInit ==
    /\ holidays = "AR"
    /\ CalendarIdle
    /\ ProspectusIdle
    /\ SnapshotIdle
    /\ MarketIdle
    /\ f_pc = "start"
    /\ f_in \in DiscoveryInputs \cup AverageInputs \cup DayCountInputs \cup EngineInputs
    /\ f_out = None

CallFindTamarVariableId ==
    /\ f_pc = "start"
    /\ f_in.fn = "find_tamar_variable_id"
    /\ f_out' = find_tamar_variable_id(f_in.impl, f_in.netListing)
    /\ f_pc' = "done"
    /\ UNCHANGED <<holidays, calVars, prospectusVars, snapshotVars, marketVars, f_in>>

CallFetchTamarSeriesAverage ==
    /\ f_pc = "start"
    /\ f_in.fn = "fetch_tamar_series_average"
    /\ f_out' = fetch_tamar_series_average(f_in.impl, f_in.id_variable,
                                           Date(2025, 3, 3), Date(2025, 3, 5),
                                           f_in.netListing, f_in.netSeries)
    /\ f_pc' = "done"
    /\ UNCHANGED <<holidays, calVars, prospectusVars, snapshotVars, marketVars, f_in>>

\* the same pair of dates given to the day count of each file
CallDays30E360 ==
    /\ f_pc = "start"
    /\ f_in.fn = "days_30e_360"
    /\ f_out' = [bond_tem |-> days_30e_360(f_in.start_date, f_in.end_date),
                 ttm26_tem |-> days_30e_360_ttm26(f_in.start_date, f_in.end_date)]
    /\ f_pc' = "done"
    /\ UNCHANGED <<holidays, calVars, prospectusVars, snapshotVars, marketVars, f_in>>

CallComputeMarketTem ==
    /\ f_pc = "start"
    /\ f_in.fn = "compute_market_tem"
    /\ f_out' = compute_market_tem(f_in.impl, f_in.maturity_date, f_in.settlement_date,
                                   f_in.face_value, f_in.price_per_100, f_in.tirea_decimal,
                                   f_in.tamar_latest_decimal, MarketToday)
    /\ f_pc' = "done"
    /\ UNCHANGED <<holidays, calVars, prospectusVars, snapshotVars, marketVars, f_in>>

FunctionsNext ==
    \/ CallFindTamarVariableId
    \/ CallFetchTamarSeriesAverage
    \/ CallDays30E360
    \/ CallComputeMarketTem

SpecFunctions == FunctionsInit /\ [][FunctionsNext]_vars

-----------------------------------------------------------------------------
(* Claims about the resolver functions *)

\* the call of `fn` has ended, by a return or by an exception
Called(fn) == f_pc = "done" /\ f_in.fn = fn

\* the id the average is fetched for, None when there is none
ExpectedVarId(in) ==
    IF Truthy(in.id_variable) THEN in.id_variable
    ELSE IF in.netListing.t = "ok" THEN find_tamar_variable_id("bond_tem", in.netListing)
    ELSE None

\* the percent values of the rows with a usable value, <<>> when the series
\* request failed or its answer holds no list of rows
UsableValues(net) ==
    IF net.t # "ok" THEN <<>>
    ELSE IF net.body.t # "dict" THEN <<>>
    ELSE IF ResultsOf(net.body).t # "list" THEN <<>>
    ELSE Valores(ResultsOf(net.body), 1)

\* C11: fetch_tamar_series_average returns the mean of the series' percent
\* values divided by 100, and None when no id is resolved, when a request fails,
\* when the answer is malformed or when no row has a usable value; no failure
\* of a request is raised out of it.
C11_AverageOrNoneNeverRaised ==
    Called("fetch_tamar_series_average") =>
        LET values == IF ExpectedVarId(f_in) = None THEN <<>>
                      ELSE UsableValues(f_in.netSeries)
        IN  /\ f_out # Raised
            /\ (f_out = None) <=> (Len(values) = 0)
            /\ f_out # None => f_out = Num((Sum(values) \div Len(values)) \div 100)

\* the entries of the listing that the loop keeps, in order: those with an
\* idVariable that int() accepts
RECURSIVE UsableEntries(_, _)
UsableEntries(items, i) ==
    IF i > Len(items) THEN <<>>
    ELSE (IF items[i].t = "dict" /\ int(DictGet(items[i], "idVariable")) # Raised
          THEN <<items[i]>> ELSE <<>>) \o UsableEntries(items, i + 1)

\* the entries of an answered listing request
ListingEntries(net) ==
    IF net.body.t # "dict" THEN <<>>
    ELSE IF ResultsOf(net.body).t # "list" THEN <<>>
    ELSE UsableEntries(ResultsOf(net.body).elems, 1)

ScoreOf(item) == score(DictGet(item, "descripcion").s)

\* a >= b, left to right, FALSE < TRUE
ScoreGE(a, b) == a = b \/ TupleGT(a, b, 1)

\* C14: on an answered listing request, find_tamar_variable_id returns the id
\* of the entry with the greatest score (four booleans compared left to right)
\* among the entries with a usable integer id, the earliest of them on ties;
\* it returns None exactly when no such entry has the keyword in its description.
C14_BestScoreEarliestOnTies ==
    (Called("find_tamar_variable_id") /\ f_in.netListing.t = "ok") =>
        LET e == ListingEntries(f_in.netListing)
            withKeyword == { i \in 1 .. Len(e) : ScoreOf(e[i])[1] }
        IN  /\ f_out # Raised
            /\ (f_out = None) <=> (withKeyword = {})
            /\ f_out # None =>
                   \E i \in 1 .. Len(e) :
                       /\ f_out = int(DictGet(e[i], "idVariable"))
                       /\ \A j \in 1 .. Len(e) : ScoreGE(ScoreOf(e[i]), ScoreOf(e[j]))
                       /\ \A j \in 1 .. (i - 1) : ScoreOf(e[j]) # ScoreOf(e[i])

\* a listing where two entries share the greatest score and the first of them
\* is returned, after an entry without the keyword
C14_Witness ==
    /\ Called("find_tamar_variable_id")
    /\ f_in.netListing.t = "ok"
    /\ f_out = PyInt(44)
    /\ LET e == ListingEntries(f_in.netListing) IN
       /\ Len(e) = 3
       /\ ~ScoreOf(e[1])[1]
       /\ int(DictGet(e[2], "idVariable")) = PyInt(44)
       /\ int(DictGet(e[3], "idVariable")) = PyInt(45)

\* an entry with the keyword but no usable id, and None returned
C14_WitnessNone ==
    /\ Called("find_tamar_variable_id")
    /\ f_in.netListing.t = "ok"
    /\ f_out = None
    /\ f_in.netListing.body.t = "dict"
    /\ ResultsOf(f_in.netListing.body).t = "list"
    /\ \E i \in 1 .. Len(ResultsOf(f_in.netListing.body).elems) :
           DictGet(ResultsOf(f_in.netListing.body).elems[i], "idVariable") = None

\* min(day, 30)
CapAt30(day) == IF day > 30 THEN 30 ELSE day

\* C17: for every pair of dates, in either order, days_30e_360 is
\* 360 (Y2 - Y1) + 30 (M2 - M1) + (min(D2, 30) - min(D1, 30)); from 2025-01-29
\* to 2025-02-28 it is 29; bond_tem.py and ttm26_tem.py give the same count.
C17_DayCount30E360 ==
    Called("days_30e_360") =>
        LET a == f_in.start_date
            b == f_in.end_date
        IN  /\ f_out.bond_tem = 360 * (b.year - a.year) + 30 * (b.month - a.month)
                                    + (CapAt30(b.day) - CapAt30(a.day))
            /\ f_out.ttm26_tem = f_out.bond_tem
            /\ (a = Date(2025, 1, 29) /\ b = Date(2025, 2, 28)) => f_out.bond_tem = 29

\* the pair of the example
C17_Witness ==
    /\ Called("days_30e_360")
    /\ f_in.start_date = Date(2025, 1, 29)
    /\ f_in.end_date = Date(2025, 2, 28)
    /\ f_out = [bond_tem |-> 29, ttm26_tem |-> 29]

\* the end before the start, from a 31st
C17_WitnessBackwards ==
    /\ Called("days_30e_360")
    /\ f_in.start_date = Date(2025, 3, 31)
    /\ f_in.end_date = Date(2024, 2, 29)
    /\ f_out.bond_tem = -391

-----------------------------------------------------------------------------
(* Claims about the runs of main *)

\* C12: a run of main never aborts: it ends with its market section formed,
\* for every ticker, every override and every answer of the feeds; with no
\* maturity the section is exactly the error about the maturity, and an
\* exception of the engine leaves exactly an error in it.
C12_RunEndsWithSections ==
    /\ m_pc # "aborted"
    /\ (m_pc = "done" /\ m_loc.maturity = None) => market = MarketError("maturity")
    /\ (m_pc = "done" /\ market.error # None) => market = MarketError(market.error.why)

\* main of bond_tem.py is over, with a market TEM block
MarketBlockDone ==
    /\ m_in # None
    /\ m_in.impl = "bond_tem"
    /\ m_pc = "done"
    /\ market.error = None

\* C15: once --market-source is applied, tem_market_percentage_str is null
\* exactly when tem_market is null (and so is tem_market_percentage); otherwise
\* the percentage is the selected tem_market times 100 rounded to 2 decimals,
\* and the text is that percentage with 2 decimals and a trailing "%".
C15_PercentageFollowsSelectedTem ==
    MarketBlockDone =>
        /\ (market.tem_market_percentage_str = None) <=> (market.tem_market = None)
        /\ (market.tem_market_percentage = None) <=> (market.tem_market = None)
        /\ market.tem_market # None =>
               LET percent == market.tem_market_percentage.n
                   text == market.tem_market_percentage_str.s
               IN  /\ percent % 10000 = 0
                   /\ Abs(percent - market.tem_market.n * 100) <= 5000
                   /\ market.tem_market_percentage_str =
                          PercentStr(market.tem_market_percentage)
                   /\ text[Len(text)] = "%"

\* --market-source price picks a TEM other than the engine's own choice, and
\* the percentage fields follow it
C15_Witness ==
    /\ MarketBlockDone
    /\ m_in.args.market_source = "price"
    /\ market.tem_from_tirea # None
    /\ market.tem_market # None
    /\ market.tem_market # market.tem_from_tirea
    /\ market.tem_market_percentage_str # None

\* --market-source ytm with no yield: the engine chose the bullet TEM, main
\* ends with no tem_market and no percentage
C15_WitnessNull ==
    /\ MarketBlockDone
    /\ m_in.args.market_source = "ytm"
    /\ market.tem_from_price_bullet # None
    /\ market.tem_market = None
    /\ market.tem_market_percentage_str = None

-----------------------------------------------------------------------------
(* Claims about the market engine *)

\* the 30E/360 day count of the call, settlement defaulted to the current date
EngineDays ==
    days_30e_360(IF f_in.settlement_date # None THEN f_in.settlement_date ELSE MarketToday,
                 f_in.maturity_date)

\* the bullet formula has a price, and its precondition fails
BulletPreconditionFails ==
    /\ f_in.price_per_100 # None
    /\ \/ f_in.price_per_100.n <= 0
       \/ EngineDays <= 0
       \/ f_in.face_value.n <= 0

\* tem_market when there is no bullet TEM: the TEM of the yield, then (in
\* bond_tem.py) the TEM of the latest reference rate
SelectionWithoutBullet ==
    LET from_tirea == IF f_in.tirea_decimal # None
                      THEN tirea_to_tem_monthly(f_in.tirea_decimal) ELSE None
    IN  IF from_tirea # None THEN from_tirea
        ELSE IF f_in.impl = "bond_tem" /\ f_in.tamar_latest_decimal # None
        THEN tamar_to_tem_monthly(f_in.tamar_latest_decimal)
        ELSE None

\* C13: in compute_market_tem, whenever the precondition of the bullet formula
\* fails (price <= 0, year fraction <= 0, face / price <= 0), the call does not
\* raise, the bullet yield and the bullet TEM are absent, the TEM of the yield
\* is computed as ever and tem_market is selected among the remaining sources.
C13_FailedBulletPreconditionGivesNone ==
    (Called("compute_market_tem") /\ BulletPreconditionFails) =>
        /\ f_out # Raised
        /\ f_out.tirea_from_price_bullet = None
        /\ f_out.tem_from_price_bullet = None
        /\ f_out.tem_from_tirea = (IF f_in.tirea_decimal # None
                                   THEN tirea_to_tem_monthly(f_in.tirea_decimal) ELSE None)
        /\ f_out.tem_market = SelectionWithoutBullet

\* the settlement of the call, defaulted to the current date
EngineSettlement ==
    IF f_in.settlement_date # None THEN f_in.settlement_date ELSE MarketToday

\* from the 30th to the 31st of one month
ThirtiethToThirtyFirst(a, b) ==
    a.year = b.year /\ a.month = b.month /\ a.day = 30 /\ b.day = 31

C20_WitnessComputed ==
    /\ Called("compute_market_tem")
    /\ f_in.settlement_date = Date(2025, 6, 2)
    /\ f_in.price_per_100 = Num(95500000)
    /\ f_in.face_value = Num(100 * Unit)
    /\ f_in.tirea_decimal = None
    /\ f_out.tem_from_price_bullet = Num(4876)
    /\ f_out.tem_market = Num(4876)

====
